---- MODULE Spec2Model ----
(***************************************************************************)
(* A model of the JWT codec of this repository: base64url transcoding,     *)
(* the three-segment token parser (decodeJWT), the signer (encodeJWT) and  *)
(* the verifier (verifyJWTSignature) with their ECDSA signature-format     *)
(* converters (derToRaw, rawToDer).                                        *)
(*                                                                         *)
(* Strings are sequences of UTF-16 code units (numbers), byte arrays are   *)
(* sequences of numbers in 0..255.  Two revisions of the codec live in the *)
(* source and both are modelled:                                           *)
(*   "split": app/utils/decode.ts + the encode module (part_004:374-530)   *)
(*            + the shared helpers (part_010); no signature conversion.    *)
(*   "conv" : app/utils/common.ts:598-1120; derToRaw on the encode path,   *)
(*            rawToDer on the verify path.                                 *)
(***************************************************************************)
EXTENDS Integers, Sequences, FiniteSets, TLC

VARIABLES rev, enc, ver, dec, ecIssued, pure, ui, par

vars == <<rev, enc, ver, dec, ecIssued, pure, ui, par>>

(***************************************************************************)
(* Characters                                                              *)
(***************************************************************************)
AsciiTable ==
  << " ", "!", "\"", "#", "$", "%", "&", "'", "(", ")", "*", "+", ",", "-", ".", "/",
     "0", "1", "2", "3", "4", "5", "6", "7", "8", "9", ":", ";", "<", "=", ">", "?",
     "@", "A", "B", "C", "D", "E", "F", "G", "H", "I", "J", "K", "L", "M", "N", "O",
     "P", "Q", "R", "S", "T", "U", "V", "W", "X", "Y", "Z", "[", "\\", "]", "^", "_",
     "grave", "a", "b", "c", "d", "e", "f", "g", "h", "i", "j", "k", "l", "m", "n", "o",
     "p", "q", "r", "s", "t", "u", "v", "w", "x", "y", "z", "{", "|", "}", "~" >>

\* The code unit of a printable ASCII character.
Ord(c) == 31 + (CHOOSE i \in 1..Len(AsciiTable) : AsciiTable[i] = c)

\* A string literal, written as the sequence of its characters.
Str(cs) == [i \in 1..Len(cs) |-> Ord(cs[i])]

Min(S) == CHOOSE x \in S : \A y \in S : x <= y
Max(S) == CHOOSE x \in S : \A y \in S : x >= y

\* s with every code unit a replaced by b: String.prototype.replace(/a/g, b).
ReplaceAll(s, a, b) == [i \in 1..Len(s) |-> IF s[i] = a THEN b ELSE s[i]]

\* s without the code units in the set D.
Remove(s, D) == SelectSeq(s, LAMBDA c : c \notin D)

\* pieces[lo] \o ... \o pieces[hi]
RECURSIVE Flatten(_, _, _)
Flatten(pieces, lo, hi) ==
  IF lo > hi THEN <<>>
  ELSE IF lo = hi THEN pieces[lo]
  ELSE Flatten(pieces, lo, (lo + hi) \div 2) \o Flatten(pieces, ((lo + hi) \div 2) + 1, hi)

\* c repeated n times: String.prototype.repeat.
Repeat(c, n) == [i \in 1..n |-> c]

\* A result that is either a value or a thrown error.
Ok(v) == [ok |-> TRUE, v |-> v, err |-> ""]
Throw(e) == [ok |-> FALSE, v |-> <<>>, err |-> e]

(***************************************************************************)
(* Base64: the platform's btoa and atob                                    *)
(***************************************************************************)
B64Alphabet ==
  Str(<< "A", "B", "C", "D", "E", "F", "G", "H", "I", "J", "K", "L", "M", "N", "O", "P",
         "Q", "R", "S", "T", "U", "V", "W", "X", "Y", "Z", "a", "b", "c", "d", "e", "f",
         "g", "h", "i", "j", "k", "l", "m", "n", "o", "p", "q", "r", "s", "t", "u", "v",
         "w", "x", "y", "z", "0", "1", "2", "3", "4", "5", "6", "7", "8", "9", "+", "/" >>)

PlusChar == Ord("+")
SlashChar == Ord("/")
MinusChar == Ord("-")
UnderChar == Ord("_")
PadChar == Ord("=")
DotChar == Ord(".")

\* The 6-bit value of a base64 character.
B64Value(c) == (CHOOSE i \in 1..64 : B64Alphabet[i] = c) - 1

B64Set == {B64Alphabet[i] : i \in 1..64}

\* btoa: standard base64 with '=' padding; throws on a code unit above 255.
btoa(bin) ==
  LET n == Len(bin)
      byteAt(i) == IF i <= n THEN bin[i] ELSE 0
      group(g) == byteAt(3 * g - 2) * 65536 + byteAt(3 * g - 1) * 256 + byteAt(3 * g)
      sextet(g, k) == (group(g) \div (64 ^ (3 - k))) % 64
      have(g) == Min({3, n - 3 * (g - 1)})
      ch(j) == LET g == ((j - 1) \div 4) + 1
                   k == (j - 1) % 4
               IN  IF k <= have(g) THEN B64Alphabet[sextet(g, k) + 1] ELSE PadChar
  IN  IF \E i \in 1..n : bin[i] > 255 THEN Throw("InvalidCharacterError")
      ELSE Ok([j \in 1..(4 * ((n + 2) \div 3)) |-> ch(j)])

AsciiWhitespace == {9, 10, 12, 13, 32}

\* atob: the forgiving-base64 decode of the HTML standard.
atob(data) ==
  LET s0 == Remove(data, AsciiWhitespace)
      n0 == Len(s0)
      s1 == IF n0 % 4 = 0 /\ n0 >= 2 /\ s0[n0] = PadChar /\ s0[n0 - 1] = PadChar
              THEN SubSeq(s0, 1, n0 - 2)
            ELSE IF n0 % 4 = 0 /\ n0 >= 1 /\ s0[n0] = PadChar
              THEN SubSeq(s0, 1, n0 - 1)
            ELSE s0
      n == Len(s1)
      val(i) == IF i <= n THEN B64Value(s1[i]) ELSE 0
      group(g) == val(4 * g - 3) * 262144 + val(4 * g - 2) * 4096
                    + val(4 * g - 1) * 64 + val(4 * g)
      outLen == (n * 6) \div 8
      byte(j) == LET g == ((j - 1) \div 3) + 1
                     k == (j - 1) % 3
                 IN  (group(g) \div (256 ^ (2 - k))) % 256
  IN  IF n % 4 = 1 \/ (\E i \in 1..n : s1[i] \notin B64Set)
        THEN Throw("InvalidCharacterError")
      ELSE Ok([j \in 1..outLen |-> byte(j)])

\* s without its trailing '=' characters: replace(/=+$/, "").
StripPad(s) ==
  LET keep == {i \in 0..Len(s) : \A j \in (i + 1)..Len(s) : s[j] = PadChar}
  IN  SubSeq(s, 1, Min(keep))

(***************************************************************************)
(* Base64url transcoder                                                    *)
(***************************************************************************)
\* A faulty variant: the '/' -> '_' substitution is forgotten.
uint8ArrayToBase64UrlNoSlash(bytes) ==
  LET b == btoa(bytes)
  IN  IF ~b.ok THEN b ELSE Ok(StripPad(ReplaceAll(b.v, PlusChar, MinusChar)))

uint8ArrayToBase64Url(bytes) ==
  LET b == btoa(bytes)
  IN  IF ~b.ok THEN b
      ELSE Ok(StripPad(ReplaceAll(ReplaceAll(b.v, PlusChar, MinusChar),
                                  SlashChar, UnderChar)))

base64UrlToBase64(base64url) ==
  LET base64 == ReplaceAll(ReplaceAll(base64url, MinusChar, PlusChar),
                           UnderChar, SlashChar)
      padding == Len(base64) % 4
  IN  IF padding # 0 THEN base64 \o Repeat(PadChar, 4 - padding) ELSE base64

base64UrlToUint8Array(base64url) == atob(base64UrlToBase64(base64url))

(***************************************************************************)
(* Strings: trim, split, UTF-8                                             *)
(***************************************************************************)
\* The code units String.prototype.trim removes (WhiteSpace and LineTerminator).
IsJsWhiteSpace(c) ==
  \/ c \in {9, 10, 11, 12, 13, 32, 160, 5760, 8232, 8233, 8239, 8287, 12288, 65279}
  \/ (c >= 8192 /\ c <= 8202)

\* String.prototype.trim
Trim(s) ==
  LET n == Len(s)
      first == Min({i \in 1..(n + 1) : i = n + 1 \/ ~IsJsWhiteSpace(s[i])})
      last == Max({i \in 0..n : i = 0 \/ ~IsJsWhiteSpace(s[i])})
  IN  IF first > last THEN <<>> ELSE SubSeq(s, first, last)

\* String.prototype.split(sep) for a one-character separator.
Split(s, sep) ==
  LET at == {i \in 1..Len(s) : s[i] = sep}
      n == Cardinality(at) + 1
      pos(k) == IF k = 0 THEN 0
                ELSE IF k = n THEN Len(s) + 1
                ELSE CHOOSE i \in at : Cardinality({j \in at : j < i}) = k - 1
  IN  [k \in 1..n |-> SubSeq(s, pos(k - 1) + 1, pos(k) - 1)]

IsHighSurrogate(c) == c >= 55296 /\ c <= 56319
IsLowSurrogate(c) == c >= 56320 /\ c <= 57343

ReplacementBytes == <<239, 191, 189>>
ReplacementChar == 65533
ByteOrderMark == 65279

\* The UTF-8 bytes of one code point.
Utf8OfCodePoint(cp) ==
  IF cp < 128 THEN <<cp>>
  ELSE IF cp < 2048 THEN <<192 + (cp \div 64), 128 + (cp % 64)>>
  ELSE IF cp < 65536
    THEN <<224 + (cp \div 4096), 128 + ((cp \div 64) % 64), 128 + (cp % 64)>>
  ELSE <<240 + (cp \div 262144), 128 + ((cp \div 4096) % 64),
         128 + ((cp \div 64) % 64), 128 + (cp % 64)>>

\* The bytes the code unit at position i of s contributes: a surrogate pair
\* contributes its four bytes at the high surrogate, a lone surrogate U+FFFD.
Utf8OfUnitAt(s, i) ==
  IF IsHighSurrogate(s[i]) /\ i < Len(s) /\ IsLowSurrogate(s[i + 1])
    THEN Utf8OfCodePoint(65536 + (s[i] - 55296) * 1024 + (s[i + 1] - 56320))
  ELSE IF IsLowSurrogate(s[i]) /\ i > 1 /\ IsHighSurrogate(s[i - 1]) THEN <<>>
  ELSE IF IsHighSurrogate(s[i]) \/ IsLowSurrogate(s[i]) THEN ReplacementBytes
  ELSE Utf8OfCodePoint(s[i])

\* new TextEncoder().encode(str): UTF-8, a lone surrogate becomes U+FFFD.
TextEncode(s) == Flatten([i \in 1..Len(s) |-> Utf8OfUnitAt(s, i)], 1, Len(s))

\* The UTF-16 code units of one code point.
Utf16OfCodePoint(cp) ==
  IF cp < 65536 THEN <<cp>>
  ELSE <<55296 + ((cp - 65536) \div 1024), 56320 + ((cp - 65536) % 1024)>>

\* The UTF-8 decoder of the Encoding standard, told position by position.
\* A byte that is not a continuation byte always begins a sequence; the
\* sequence takes the following bytes as long as they are the ones it needs;
\* a continuation byte that no sequence takes is ill-formed on its own.
IsContinuation(x) == x >= 128 /\ x <= 191

\* The continuation bytes the lead byte x needs; -1: x cannot begin a sequence.
Utf8Needed(x) ==
  IF x <= 127 THEN 0
  ELSE IF x >= 194 /\ x <= 223 THEN 1
  ELSE IF x >= 224 /\ x <= 239 THEN 2
  ELSE IF x >= 240 /\ x <= 244 THEN 3
  ELSE -1

\* The range of the first continuation byte after the lead byte x.
Utf8Lower(x) == IF x = 224 THEN 160 ELSE IF x = 240 THEN 144 ELSE 128
Utf8Upper(x) == IF x = 237 THEN 159 ELSE IF x = 244 THEN 143 ELSE 191

\* The k-th byte after position q is one the sequence begun at q accepts.
Utf8Accepts(b, q, k) ==
  /\ q + k <= Len(b)
  /\ IF k = 1 THEN b[q + 1] >= Utf8Lower(b[q]) /\ b[q + 1] <= Utf8Upper(b[q])
     ELSE IsContinuation(b[q + k])

\* The number of bytes after position q that the sequence begun there takes.
Utf8Taken(b, q) ==
  Max({k \in 0..Max({0, Utf8Needed(b[q])}) : \A j \in 1..k : Utf8Accepts(b, q, j)})

Utf8Complete(b, q) == Utf8Needed(b[q]) >= 0 /\ Utf8Taken(b, q) = Utf8Needed(b[q])

\* The code point of the complete sequence begun at q.
Utf8CodePoint(b, q) ==
  CASE Utf8Needed(b[q]) = 0 -> b[q]
    [] Utf8Needed(b[q]) = 1 -> (b[q] % 32) * 64 + (b[q + 1] % 64)
    [] Utf8Needed(b[q]) = 2 ->
         (b[q] % 16) * 4096 + (b[q + 1] % 64) * 64 + (b[q + 2] % 64)
    [] OTHER ->
         (b[q] % 8) * 262144 + (b[q + 1] % 64) * 4096 + (b[q + 2] % 64) * 64
           + (b[q + 3] % 64)

\* The last position up to p whose byte is not a continuation byte, or 0.
Utf8LeadBefore(b, p) == Max({0} \cup {q \in 1..p : ~IsContinuation(b[q])})

\* Byte p is taken by the sequence begun at q.
Utf8TakenBy(b, p, q) == q > 0 /\ q < p /\ p <= q + Utf8Taken(b, q)

Utf8Inside(b, p) == Utf8TakenBy(b, p, Utf8LeadBefore(b, p))

\* The text is ill-formed at p: a stray continuation byte, or a sequence
\* that cannot begin or is cut short.
Utf8IllFormedAt(b, p) ==
  ~Utf8Inside(b, p) /\ (IsContinuation(b[p]) \/ ~Utf8Complete(b, p))

\* The code units position p gives: U+FFFD where the text is ill-formed.
Utf8UnitsAt(b, p) ==
  IF Utf8Inside(b, p) THEN <<>>
  ELSE IF IsContinuation(b[p]) \/ ~Utf8Complete(b, p) THEN <<ReplacementChar>>
  ELSE Utf16OfCodePoint(Utf8CodePoint(b, p))

\* bad: some byte sequence was ill-formed; out: the text, with U+FFFD for
\* every ill-formed sequence.
Utf8Decode(b) ==
  [bad |-> \E p \in 1..Len(b) : Utf8IllFormedAt(b, p),
   out |-> Flatten([p \in 1..Len(b) |-> Utf8UnitsAt(b, p)], 1, Len(b))]

\* The text without a leading byte order mark.
WithoutBom(d) == IF d # <<>> /\ Head(d) = ByteOrderMark THEN Tail(d) ELSE d

\* new TextDecoder().decode(bytes): never throws; ill-formed input decodes to
\* U+FFFD and a leading byte order mark is dropped.
TextDecode(bytes) == WithoutBom(Utf8Decode(bytes).out)

\* The text a decoder gave, or URIError if the bytes were ill-formed.
WellFormedOnly(d) == IF d.bad THEN Throw("URIError") ELSE Ok(d.out)

\* decodeURIComponent of the bytes written as %xx escapes: throws URIError
\* on ill-formed UTF-8.
decodeURIComponent(bytes) == WellFormedOnly(Utf8Decode(bytes))

\* base64UrlEncode: UTF-8 bytes of the string, then base64url.
base64UrlEncode(str) == uint8ArrayToBase64Url(TextEncode(str))

\* base64UrlDecode of the "conv" revision (and of common.ts:63).
base64UrlDecodeStrict(str) ==
  LET bin == atob(base64UrlToBase64(str))
  IN  IF ~bin.ok THEN Throw("Invalid Base64 encoding")
      ELSE LET t == decodeURIComponent(bin.v)
           IN  IF ~t.ok THEN Throw("Invalid Base64 encoding") ELSE t

\* A faulty variant: the bytes are returned as a binary string, without UTF-8 decoding.
base64UrlDecodeBinary(str) ==
  LET bytes == base64UrlToUint8Array(str)
  IN  IF ~bytes.ok THEN Throw("Invalid Base64 encoding") ELSE Ok(bytes.v)

\* base64UrlDecode of the "split" revision: TextDecoder.
base64UrlDecodeLossy(str) ==
  LET bytes == base64UrlToUint8Array(str)
  IN  IF ~bytes.ok THEN Throw("Invalid Base64 encoding")
      ELSE Ok(TextDecode(bytes.v))

base64UrlDecode(r, str) ==
  IF r = "split" THEN base64UrlDecodeLossy(str) ELSE base64UrlDecodeStrict(str)

(***************************************************************************)
(* JavaScript values and JSON                                              *)
(*                                                                         *)
(* A value is a tagged record.  An object is the sequence of its own       *)
(* properties in property order.  Numbers are integers; property names are *)
(* not array indices (those would be reordered by the engine).             *)
(***************************************************************************)
Undefined == [t |-> "undefined"]
JNull == [t |-> "null"]
JBool(b) == [t |-> "bool", b |-> b]
JNum(n) == [t |-> "num", n |-> n]
JStr(s) == [t |-> "str", s |-> s]
JArr(a) == [t |-> "arr", a |-> a]
JObj(m) == [t |-> "obj", m |-> m]
JBigInt == [t |-> "bigint"]
Prop(k, v) == [k |-> k, v |-> v]

\* obj[key] for a value that is not null or undefined.
GetProp(obj, key) ==
  IF obj.t = "obj" /\ \E i \in 1..Len(obj.m) : obj.m[i].k = key
    THEN obj.m[CHOOSE i \in 1..Len(obj.m) : obj.m[i].k = key].v
  ELSE Undefined

\* ToBoolean
Truthy(v) ==
  CASE v.t = "undefined" -> FALSE
    [] v.t = "null" -> FALSE
    [] v.t = "bool" -> v.b
    [] v.t = "num" -> v.n # 0
    [] v.t = "str" -> v.s # <<>>
    [] OTHER -> TRUE

HexDigits == Str(<<"0", "1", "2", "3", "4", "5", "6", "7", "8", "9",
                   "a", "b", "c", "d", "e", "f">>)

Hex4(c) == <<HexDigits[((c \div 4096) % 16) + 1], HexDigits[((c \div 256) % 16) + 1],
             HexDigits[((c \div 16) % 16) + 1], HexDigits[(c % 16) + 1]>>

RECURSIVE DecimalDigits(_)
DecimalDigits(n) ==
  IF n < 10 THEN <<48 + n>> ELSE DecimalDigits(n \div 10) \o <<48 + (n % 10)>>

NumberToString(n) == IF n < 0 THEN <<45>> \o DecimalDigits(-n) ELSE DecimalDigits(n)

\* The escapes JSON.stringify writes inside a string.
EscapeUnit(s, i) ==
  LET c == s[i]
      lone == \/ (IsHighSurrogate(c) /\ ~(i < Len(s) /\ IsLowSurrogate(s[i + 1])))
              \/ (IsLowSurrogate(c) /\ ~(i > 1 /\ IsHighSurrogate(s[i - 1])))
  IN  CASE c = 8 -> <<92, 98>>
        [] c = 9 -> <<92, 116>>
        [] c = 10 -> <<92, 110>>
        [] c = 12 -> <<92, 102>>
        [] c = 13 -> <<92, 114>>
        [] c = 34 -> <<92, 34>>
        [] c = 92 -> <<92, 92>>
        [] c < 32 /\ c \notin {8, 9, 10, 12, 13} -> <<92, 117>> \o Hex4(c)
        [] lone -> <<92, 117>> \o Hex4(c)
        [] OTHER -> <<c>>

RECURSIVE QuoteFrom(_, _)
QuoteFrom(s, i) == IF i > Len(s) THEN <<>> ELSE EscapeUnit(s, i) \o QuoteFrom(s, i + 1)

QuoteJSONString(s) == <<34>> \o QuoteFrom(s, 1) \o <<34>>

\* JSON.stringify(value) without indentation.  A property whose value is
\* undefined is left out; undefined inside an array is written as null.
RECURSIVE JSONstringify(_), StringifyProps(_, _), StringifyItems(_)
JSONstringify(v) ==
  CASE v.t = "null" -> Str(<<"n", "u", "l", "l">>)
    [] v.t = "bool" -> IF v.b THEN Str(<<"t", "r", "u", "e">>)
                       ELSE Str(<<"f", "a", "l", "s", "e">>)
    [] v.t = "num" -> NumberToString(v.n)
    [] v.t = "str" -> QuoteJSONString(v.s)
    [] v.t = "arr" -> <<91>> \o StringifyItems(v.a) \o <<93>>
    [] v.t = "obj" -> <<123>> \o StringifyProps(v.m, TRUE) \o <<125>>

StringifyProps(m, first) ==
  IF m = <<>> THEN <<>>
  ELSE IF Head(m).v.t = "undefined" THEN StringifyProps(Tail(m), first)
  ELSE (IF first THEN <<>> ELSE <<44>>)
         \o QuoteJSONString(Head(m).k) \o <<58>> \o JSONstringify(Head(m).v)
         \o StringifyProps(Tail(m), FALSE)

StringifyItems(a) ==
  IF a = <<>> THEN <<>>
  ELSE (IF Head(a).t = "undefined" THEN JSONstringify(JNull) ELSE JSONstringify(Head(a)))
         \o (IF Len(a) > 1 THEN <<44>> ELSE <<>>) \o StringifyItems(Tail(a))

\* JSON.stringify throws a TypeError on a value that holds a BigInt.
RECURSIVE StringifyThrows(_)
StringifyThrows(v) ==
  \/ v.t = "bigint"
  \/ (v.t = "obj" /\ \E i \in 1..Len(v.m) : StringifyThrows(v.m[i].v))
  \/ (v.t = "arr" /\ \E i \in 1..Len(v.a) : StringifyThrows(v.a[i]))

\* base64UrlEncode(JSON.stringify(v)) inside a try block
StringifiedSegment(v) ==
  IF StringifyThrows(v) THEN Throw("TypeError") ELSE base64UrlEncode(JSONstringify(v))

JsonWhitespace == {9, 10, 13, 32}

RECURSIVE SkipWs(_, _)
SkipWs(s, i) == IF i <= Len(s) /\ s[i] \in JsonWhitespace THEN SkipWs(s, i + 1) ELSE i

ParseFail == [ok |-> FALSE, v |-> JNull, pos |-> 0]
Parsed(v, pos) == [ok |-> TRUE, v |-> v, pos |-> pos]

Matches(s, i, lit) ==
  i + Len(lit) - 1 <= Len(s) /\ SubSeq(s, i, i + Len(lit) - 1) = lit

HexValue(c) ==
  IF c >= 48 /\ c <= 57 THEN c - 48
  ELSE IF c >= 97 /\ c <= 102 THEN c - 87
  ELSE IF c >= 65 /\ c <= 70 THEN c - 55
  ELSE -1

SimpleEscape(e) ==
  CASE e = 34 -> 34 [] e = 92 -> 92 [] e = 47 -> 47 [] e = 98 -> 8
    [] e = 102 -> 12 [] e = 110 -> 10 [] e = 114 -> 13 [] e = 116 -> 9
    [] OTHER -> -1

\* The code units of a JSON string whose opening quote precedes position i.
RECURSIVE ParseStringBody(_, _)
ParseStringBody(s, i) ==
  IF i > Len(s) THEN ParseFail
  ELSE IF s[i] = 34 THEN Parsed(<<>>, i + 1)
  ELSE IF s[i] < 32 THEN ParseFail
  ELSE IF s[i] = 92
    THEN IF i + 1 > Len(s) THEN ParseFail
         ELSE IF SimpleEscape(s[i + 1]) >= 0
           THEN LET r == ParseStringBody(s, i + 2)
                IN  IF r.ok THEN Parsed(<<SimpleEscape(s[i + 1])>> \o r.v, r.pos)
                    ELSE ParseFail
         ELSE IF s[i + 1] = 117 /\ i + 5 <= Len(s)
                 /\ \A k \in 2..5 : HexValue(s[i + k]) >= 0
           THEN LET r == ParseStringBody(s, i + 6)
                    u == HexValue(s[i + 2]) * 4096 + HexValue(s[i + 3]) * 256
                           + HexValue(s[i + 4]) * 16 + HexValue(s[i + 5])
                IN  IF r.ok THEN Parsed(<<u>> \o r.v, r.pos) ELSE ParseFail
         ELSE ParseFail
  ELSE LET r == ParseStringBody(s, i + 1)
       IN  IF r.ok THEN Parsed(<<s[i]>> \o r.v, r.pos) ELSE ParseFail

IsDigit(c) == c >= 48 /\ c <= 57

RECURSIVE DigitsEnd(_, _)
DigitsEnd(s, i) == IF i <= Len(s) /\ IsDigit(s[i]) THEN DigitsEnd(s, i + 1) ELSE i

RECURSIVE DecimalValue(_)
DecimalValue(d) ==
  IF d = <<>> THEN 0 ELSE DecimalValue(SubSeq(d, 1, Len(d) - 1)) * 10 + (d[Len(d)] - 48)

\* An integer literal at position i; a fraction or an exponent is outside the
\* numbers of this model and is refused.
ParseNumber(s, i) ==
  LET neg == s[i] = 45
      j == IF neg THEN i + 1 ELSE i
      e == IF j <= Len(s) /\ s[j] = 48 THEN j + 1 ELSE DigitsEnd(s, j)
  IN  IF e = j THEN ParseFail
      ELSE IF e <= Len(s) /\ s[e] \in {46, 69, 101} THEN ParseFail
      ELSE Parsed(JNum((IF neg THEN -1 ELSE 1) * DecimalValue(SubSeq(s, j, e - 1))), e)

\* The properties m with key k set to v: a repeated key keeps its place and
\* takes the later value.
PutProp(m, k, v) ==
  IF \E i \in 1..Len(m) : m[i].k = k
    THEN [i \in 1..Len(m) |-> IF m[i].k = k THEN Prop(k, v) ELSE m[i]]
  ELSE Append(m, Prop(k, v))

RECURSIVE ParseValue(_, _), ParseMembers(_, _, _), ParseElements(_, _, _)
ParseValue(s, i) ==
  IF i > Len(s) THEN ParseFail
  ELSE IF s[i] = 123
    THEN LET j == SkipWs(s, i + 1)
         IN  IF j <= Len(s) /\ s[j] = 125 THEN Parsed(JObj(<<>>), j + 1)
             ELSE ParseMembers(s, j, <<>>)
  ELSE IF s[i] = 91
    THEN LET j == SkipWs(s, i + 1)
         IN  IF j <= Len(s) /\ s[j] = 93 THEN Parsed(JArr(<<>>), j + 1)
             ELSE ParseElements(s, j, <<>>)
  ELSE IF s[i] = 34
    THEN LET r == ParseStringBody(s, i + 1)
         IN  IF r.ok THEN Parsed(JStr(r.v), r.pos) ELSE ParseFail
  ELSE IF s[i] = 45 \/ IsDigit(s[i]) THEN ParseNumber(s, i)
  ELSE IF Matches(s, i, Str(<<"t", "r", "u", "e">>)) THEN Parsed(JBool(TRUE), i + 4)
  ELSE IF Matches(s, i, Str(<<"f", "a", "l", "s", "e">>)) THEN Parsed(JBool(FALSE), i + 5)
  ELSE IF Matches(s, i, Str(<<"n", "u", "l", "l">>)) THEN Parsed(JNull, i + 4)
  ELSE ParseFail

ParseMembers(s, i, acc) ==
  IF i > Len(s) \/ s[i] # 34 THEN ParseFail
  ELSE LET k == ParseStringBody(s, i + 1)
       IN  IF ~k.ok THEN ParseFail
           ELSE LET c == SkipWs(s, k.pos)
                IN  IF c > Len(s) \/ s[c] # 58 THEN ParseFail
                    ELSE LET v == ParseValue(s, SkipWs(s, c + 1))
                         IN  IF ~v.ok THEN ParseFail
                             ELSE LET n == SkipWs(s, v.pos)
                                      m == PutProp(acc, k.v, v.v)
                                  IN  IF n > Len(s) THEN ParseFail
                                      ELSE IF s[n] = 44
                                        THEN ParseMembers(s, SkipWs(s, n + 1), m)
                                      ELSE IF s[n] = 125 THEN Parsed(JObj(m), n + 1)
                                      ELSE ParseFail

ParseElements(s, i, acc) ==
  LET v == ParseValue(s, i)
  IN  IF ~v.ok THEN ParseFail
      ELSE LET n == SkipWs(s, v.pos)
           IN  IF n > Len(s) THEN ParseFail
               ELSE IF s[n] = 44 THEN ParseElements(s, SkipWs(s, n + 1), Append(acc, v.v))
               ELSE IF s[n] = 93 THEN Parsed(JArr(Append(acc, v.v)), n + 1)
               ELSE ParseFail

\* JSON.parse(text): the value, or a thrown SyntaxError.
JSONparse(text) ==
  LET r == ParseValue(text, SkipWs(text, 1))
  IN  IF r.ok /\ SkipWs(text, r.pos) = Len(text) + 1 THEN Ok(r.v)
      ELSE Throw("SyntaxError")

\* JSON.parse of what a decoder returned; a throw of the decoder passes on.
ParseDecoded(text) == IF text.ok THEN JSONparse(text.v) ELSE text

\* JSON.parse(base64UrlDecode(segment))
JsonSegment(r, segment) == ParseDecoded(base64UrlDecode(r, segment))

(***************************************************************************)
(* ECDSA signature format: raw R||S and DER SEQUENCE { INTEGER, INTEGER }  *)
(***************************************************************************)
CoordLen == 32
RawLen == 64

\* A typed-array read at a 0-based index: -1 stands for undefined.
ByteAt(a, i0) == IF i0 >= 0 /\ i0 < Len(a) THEN a[i0 + 1] ELSE -1

\* Uint8Array.prototype.slice(from, to) with 0-based, clamped bounds.
Slice(a, from, to) == SubSeq(a, Min({from, Len(a)}) + 1, Min({to, Len(a)}))

\* new Uint8Array(n) with x copied in at offset off: padded.set(x, off).
ZeroPadded(n, x, off) ==
  [i \in 1..n |-> IF i > off /\ i <= off + Len(x) THEN x[i - off] ELSE 0]

\* if (r.length > 32 && r[0] === 0) r = r.slice(1), then left-pad to 32.
DerIntToCoord(x) ==
  LET y == IF Len(x) > CoordLen /\ x[1] = 0 THEN Tail(x) ELSE x
  IN  IF Len(y) < CoordLen THEN ZeroPadded(CoordLen, y, CoordLen - Len(y)) ELSE y

derToRaw(der) ==
  IF Len(der) = RawLen THEN Ok(der)
  ELSE IF ByteAt(der, 2) # 2 THEN Throw("Invalid DER signature")
  ELSE
    LET rLen == ByteAt(der, 3)
        r == IF rLen < 0 THEN <<>> ELSE Slice(der, 4, 4 + rLen)
        sTag == IF rLen < 0 THEN -1 ELSE 4 + rLen
    IN  IF ByteAt(der, sTag) # 2 THEN Throw("Invalid DER signature")
        ELSE
          LET sLen == ByteAt(der, sTag + 1)
              s == IF sLen < 0 THEN <<>> ELSE Slice(der, sTag + 2, sTag + 2 + sLen)
              r32 == DerIntToCoord(r)
              s32 == DerIntToCoord(s)
          IN  \* raw.set(r, 0); raw.set(s, 32) on a 64-byte array
              IF Len(r32) > RawLen \/ CoordLen + Len(s32) > RawLen
                THEN Throw("RangeError")
              ELSE Ok([i \in 1..RawLen |->
                         IF i > CoordLen THEN s32[i - CoordLen]
                         ELSE IF i <= Len(r32) THEN r32[i] ELSE 0])

\* if (r[0] & 0x80) { padded = new Uint8Array(33); padded.set(r, 1) }
SignPadded(x) ==
  IF x # <<>> /\ x[1] >= 128 THEN ZeroPadded(CoordLen + 1, x, 1) ELSE x

\* A faulty variant: leading zero bytes are left in place.
StripLeadingZerosNever(x) == x

\* while (r.length > 1 && r[0] === 0 && !(r[1] & 0x80)) r = r.slice(1)
RECURSIVE StripLeadingZeros(_)
StripLeadingZeros(x) ==
  IF Len(x) > 1 /\ x[1] = 0 /\ x[2] < 128 THEN StripLeadingZeros(Tail(x)) ELSE x

DerInteger(x) == StripLeadingZeros(SignPadded(x))

rawToDer(rawSignature) ==
  LET r == DerInteger(Slice(rawSignature, 0, CoordLen))
      s == DerInteger(Slice(rawSignature, CoordLen, RawLen))
      totalLen == 2 + Len(r) + 2 + Len(s)
  IN  <<48, totalLen % 256, 2, Len(r)>> \o r \o <<2, Len(s)>> \o s

(***************************************************************************)
(* PEM decoder                                                             *)
(***************************************************************************)
\* \w of a regular expression
IsWordChar(c) ==
  \/ (c >= 48 /\ c <= 57) \/ (c >= 65 /\ c <= 90) \/ (c >= 97 /\ c <= 122) \/ c = 95

Dashes == Str(<<"-", "-", "-", "-", "-">>)
BeginWord == Str(<<"B", "E", "G", "I", "N">>)
EndWord == Str(<<"E", "N", "D">>)

RECURSIVE LabelEnd(_, _)
LabelEnd(s, i) ==
  IF i <= Len(s) /\ (IsWordChar(s[i]) \/ IsJsWhiteSpace(s[i])) THEN LabelEnd(s, i + 1)
  ELSE i

\* The position after a match of /-----<word> [\w\s]+-----/ at position i, or 0.
MarkerEnd(s, i, word) ==
  LET open == Dashes \o word \o <<32>>
      j == i + Len(open)
      e == LabelEnd(s, j)
  IN  IF Matches(s, i, open) /\ e > j /\ Matches(s, e, Dashes) THEN e + Len(Dashes)
      ELSE 0

\* The first position from i on where /-----(w1|w2) [\w\s]+-----/ matches,
\* or 0.
NextMarker(s, i, w1, w2) ==
  LET at == {j \in i..Len(s) : MarkerEnd(s, j, w1) > 0 \/ MarkerEnd(s, j, w2) > 0}
  IN  IF at = {} THEN 0 ELSE Min(at)

\* s.replace(/-----(w1|w2) [\w\s]+-----/g, "") from position i on: the
\* matches are taken from left to right and do not overlap.
RECURSIVE RemoveMarkers(_, _, _, _)
RemoveMarkers(s, i, w1, w2) ==
  IF NextMarker(s, i, w1, w2) = 0 THEN SubSeq(s, i, Len(s))
  ELSE SubSeq(s, i, NextMarker(s, i, w1, w2) - 1)
         \o RemoveMarkers(s, Max({MarkerEnd(s, NextMarker(s, i, w1, w2), w1),
                                   MarkerEnd(s, NextMarker(s, i, w1, w2), w2)}), w1, w2)

\* s.replace(/\s/g, "")
RemoveSpace(s) == SelectSeq(s, LAMBDA c : ~IsJsWhiteSpace(c))

\* s.replace(/-----(BEGIN|END) [\w\s]+-----|\s/g, ""): no marker starts at a
\* white space, so the white space outside the markers goes.
RemoveMarkersAndSpace(s) == RemoveSpace(RemoveMarkers(s, 1, BeginWord, EndWord))

pemToArrayBuffer(r, pem) ==
  IF r = "split" THEN atob(RemoveMarkersAndSpace(pem))
  ELSE atob(RemoveSpace(RemoveMarkers(RemoveMarkers(pem, 1, BeginWord, BeginWord),
                                      1, EndWord, EndWord)))

(***************************************************************************)
(* The cryptographic provider (crypto.subtle), idealised                   *)
(*                                                                         *)
(* Key blobs stand for the PKCS#8 / SPKI encodings of one RSA and one      *)
(* P-256 key pair.  HMAC and RSASSA-PKCS1-v1_5 are deterministic and       *)
(* collision free: the signature is an injective encoding of (key, data).  *)
(* ECDSA is randomised: sign draws a raw 64-byte R||S value, and verify    *)
(* accepts exactly the raw values sign has issued for that key and data.   *)
(***************************************************************************)
SUPPORTED_ALGORITHMS ==
  << Str(<<"H", "S", "2", "5", "6">>), Str(<<"R", "S", "2", "5", "6">>),
     Str(<<"E", "S", "2", "5", "6">>) >>

HS256 == SUPPORTED_ALGORITHMS[1]
RS256 == SUPPORTED_ALGORITHMS[2]
ES256 == SUPPORTED_ALGORITHMS[3]

\* SUPPORTED_ALGORITHMS.includes(v)
IsSupported(v) == v.t = "str" /\ \E i \in 1..Len(SUPPORTED_ALGORITHMS) : SUPPORTED_ALGORITHMS[i] = v.s

\* ALGORITHM_INFO[alg].keyType
KeyType(alg) == IF alg = HS256 THEN "symmetric" ELSE "asymmetric"

\* The key blob of a format ("pkcs8" or "spki") and a family ("RSA" or "EC").
KeyBlob(format, family) ==
  <<48, IF format = "pkcs8" THEN 130 ELSE 89, IF family = "RSA" THEN 13 ELSE 19, 251>>

\* crypto.subtle.importKey(format, keyData, algorithm): a key handle, or DataError.
importKey(format, keyData, family) ==
  IF format = "raw"
    THEN IF keyData = <<>> THEN Throw("DataError")
         ELSE Ok([family |-> "HMAC", format |-> "raw", k |-> keyData])
  ELSE IF keyData = KeyBlob(format, family)
    THEN Ok([family |-> family, format |-> format, k |-> <<>>])
  ELSE Throw("DataError")

\* crypto.subtle.sign("HMAC", key, data)
HmacSha256(key, data) == <<251, 255, Len(key.k) % 256>> \o key.k \o data

\* crypto.subtle.sign({name: "RSASSA-PKCS1-v1_5"}, privateKey, data)
RsaSign(data) == <<255, 239, 190>> \o data

\* crypto.subtle.verify({name: "RSASSA-PKCS1-v1_5"}, publicKey, signature, data)
RsaVerify(signature, data) == signature = RsaSign(data)

\* crypto.subtle.verify({name: "ECDSA", hash: "SHA-256"}, publicKey, signature, data)
EcdsaVerify(issued, signature, data) == [data |-> data, sig |-> signature] \in issued

(***************************************************************************)
(* Results and errors                                                      *)
(***************************************************************************)
\* A property that is not there at all (as opposed to one that is undefined).
Absent == [t |-> "absent"]

\* An error message: the fixed text, and what is interpolated into it.
Err(msg) == [t |-> "error", msg |-> msg, detail |-> "", alg |-> Undefined, supported |-> <<>>]

\* `Algorithm "${algorithm}" is not supported. Supported: ${SUPPORTED_ALGORITHMS.join(", ")}`
AlgorithmNotSupported(alg) ==
  [Err("Algorithm is not supported. Supported:") EXCEPT
     !.alg = alg, !.supported = SUPPORTED_ALGORITHMS]

\* A faulty variant: the catch block returns no error.
EncodingFailedSilent(e) == Undefined

\* A faulty variant: the catch block returns the bare message.
EncodingFailedBare(e) == Err(e)

\* `Encoding failed: ${e.message}`
EncodingFailed(e) == [Err("Encoding failed:") EXCEPT !.detail = e]

\* A faulty variant: the catch block returns no error.
VerificationFailedSilent(e) == Undefined

\* `Verification failed: ${e.message}`
VerificationFailed(e) == [Err("Verification failed:") EXCEPT !.detail = e]

AlgKey == Str(<<"a", "l", "g">>)
NoKey == [family |-> "none", format |-> "none", k |-> <<>>]

FamilyOf(alg) == IF alg = HS256 THEN "HMAC" ELSE IF alg = RS256 THEN "RSA" ELSE "EC"

(***************************************************************************)
(* encodeJWT                                                               *)
(*                                                                         *)
(* A call is a record: its arguments, its locals, its position (pc), the   *)
(* provider calls it has made (crypto), the bytes the sign primitive gave  *)
(* it (primSig) and, once pc = "resolved", its EncodeResult.               *)
(***************************************************************************)
EncIdle ==
  [pc |-> "idle", header |-> JNull, payload |-> JNull, key |-> <<>>,
   algorithm |-> Undefined, headerB64 |-> <<>>, payloadB64 |-> <<>>,
   keyData |-> <<>>, pemError |-> "", handle |-> NoKey, crypto |-> <<>>,
   primSig |-> <<>>, token |-> <<>>, error |-> Undefined]

EncReturn(c, token, error) ==
  [c EXCEPT !.pc = "resolved", !.token = token, !.error = error]

\* A faulty variant: the key is looked at before the algorithm.
EncodeKeyFirst(header, key) ==
  LET alg == GetProp(header, AlgKey)
  IN  IF key = <<>> THEN Err("Secret is required for signing")
      ELSE IF ~Truthy(alg) THEN Err("Header must include 'alg' field")
      ELSE IF ~IsSupported(alg) THEN AlgorithmNotSupported(alg)
      ELSE Undefined

\* encodeJWT's argument checks: the error to return, or Undefined to go on.
EncodeChecks(header, key) ==
  LET alg == GetProp(header, AlgKey)
  IN  IF ~Truthy(alg) THEN Err("Header must include 'alg' field")
      ELSE IF ~IsSupported(alg) THEN AlgorithmNotSupported(alg)
      ELSE IF key = <<>>
        THEN IF KeyType(alg.s) = "symmetric" THEN Err("Secret is required for signing")
             ELSE Err("Private key is required for signing")
      ELSE Undefined

\* `${headerB64}.${payloadB64}` on the encode path
EncodeSigningInput(headerB64, payloadB64) == headerB64 \o <<DotChar>> \o payloadB64

\* From the call to the first await (or to the return, if it comes first).
encodeJWTStart(r, header, payload, key) ==
  LET c == [EncIdle EXCEPT !.header = header, !.payload = payload, !.key = key,
                           !.algorithm = GetProp(header, AlgKey)]
      bad == EncodeChecks(header, key)
      h == StringifiedSegment(header)
      p == StringifiedSegment(payload)
      pem == pemToArrayBuffer(r, key)
  IN  IF bad # Undefined THEN EncReturn(c, <<>>, bad)
      ELSE IF ~h.ok THEN EncReturn(c, <<>>, EncodingFailed(h.err))
      ELSE IF ~p.ok THEN EncReturn(c, <<>>, EncodingFailed(p.err))
      ELSE LET d == [c EXCEPT !.headerB64 = h.v, !.payloadB64 = p.v]
           IN  IF c.algorithm.s = HS256
                 THEN [d EXCEPT !.pc = "importKey", !.keyData = TextEncode(key)]
               \* pemToArrayBuffer throws inside the async import function:
               \* its promise rejects and the await below observes it.
               ELSE IF ~pem.ok THEN [d EXCEPT !.pc = "importKey", !.pemError = pem.err]
               ELSE [d EXCEPT !.pc = "importKey", !.keyData = pem.v]

\* After `await crypto.subtle.importKey(...)` / `await importRSAPrivateKey(key)`.
encodeJWTImported(c) ==
  LET alg == c.algorithm.s
      k == importKey(IF alg = HS256 THEN "raw" ELSE "pkcs8", c.keyData, FamilyOf(alg))
      d == [c EXCEPT !.crypto = Append(@, "importKey")]
  IN  IF c.pemError # "" THEN EncReturn(c, <<>>, EncodingFailed(c.pemError))
      ELSE IF ~k.ok THEN EncReturn(d, <<>>, EncodingFailed(k.err))
      ELSE [d EXCEPT !.pc = "sign", !.handle = k.v]

\* The bytes encodeJWT puts into the token for what the ES256 sign primitive gave.
EcEncodeOutput(r, signatureBuffer) ==
  IF r = "conv" THEN derToRaw(signatureBuffer) ELSE Ok(signatureBuffer)

\* After `await crypto.subtle.sign(...)`, which gave signatureBuffer.
encodeJWTSigned(r, c, signatureBuffer) ==
  LET d == [c EXCEPT !.crypto = Append(@, "sign"), !.primSig = signatureBuffer]
      raw == IF c.algorithm.s = ES256 THEN EcEncodeOutput(r, signatureBuffer)
             ELSE Ok(signatureBuffer)
      sig == IF raw.ok THEN uint8ArrayToBase64Url(raw.v) ELSE raw
  IN  IF ~sig.ok THEN EncReturn(d, <<>>, EncodingFailed(sig.err))
      ELSE EncReturn(d, c.headerB64 \o <<DotChar>> \o c.payloadB64 \o <<DotChar>> \o sig.v,
                     Undefined)

\* The bytes the encode path signs.
EncodeDataBytes(c) == TextEncode(EncodeSigningInput(c.headerB64, c.payloadB64))

(***************************************************************************)
(* verifyJWTSignature                                                      *)
(*                                                                         *)
(* pc = "resolved": the promise resolved with the VerificationResult       *)
(* (verified, error, resAlgorithm); pc = "rejected": the promise rejected  *)
(* with the exception named in thrown.  origin records where the token     *)
(* came from and plays no part in the call.                                *)
(***************************************************************************)
VerIdle ==
  [pc |-> "idle", token |-> <<>>, key |-> <<>>, origin |-> "none",
   algorithm |-> Undefined, headerB64 |-> <<>>, payloadB64 |-> <<>>,
   signatureB64 |-> <<>>, dataBytes |-> <<>>, signatureBytes |-> <<>>,
   keyData |-> <<>>, pemError |-> "", handle |-> NoKey, crypto |-> <<>>,
   primSig |-> <<>>, verified |-> FALSE, error |-> Undefined,
   resAlgorithm |-> Absent, thrown |-> ""]

VerReturn(c, verified, error, algorithm) ==
  [c EXCEPT !.pc = "resolved", !.verified = verified, !.error = error,
            !.resAlgorithm = algorithm]

VerReject(c, e) == [c EXCEPT !.pc = "rejected", !.thrown = e]

\* The text verifyJWTSignature parses as the header: base64UrlDecode in the
\* "split" revision, a bare atob (bytes taken as code units) in "conv".
VerifyHeaderText(r, headerB64) ==
  IF r = "split" THEN base64UrlDecode(r, headerB64)
  ELSE atob(ReplaceAll(ReplaceAll(headerB64, MinusChar, PlusChar), UnderChar, SlashChar)
              \o Repeat(PadChar, (4 - (Len(headerB64) % 4)) % 4))

\* A faulty variant: the signing input is rebuilt from the parsed JSON of the two
\* segments instead of being taken from the wire.
Reserialized(seg, v) == IF v.ok THEN base64UrlEncode(JSONstringify(v.v)).v ELSE seg

VerifySigningInputReserialized(headerB64, payloadB64) ==
  Reserialized(headerB64, JsonSegment("split", headerB64)) \o <<DotChar>>
    \o Reserialized(payloadB64, JsonSegment("split", payloadB64))

\* `${headerB64}.${payloadB64}` on the verify path
VerifySigningInput(headerB64, payloadB64) == headerB64 \o <<DotChar>> \o payloadB64

\* A faulty variant: the raw signature is always converted to DER before verify.
EcVerifyInputAlwaysDer(r, signatureBytes) == rawToDer(signatureBytes)

\* The bytes verifyJWTSignature hands to the ES256 verify primitive.
EcVerifyInput(r, signatureBytes) ==
  IF r = "conv" THEN rawToDer(signatureBytes) ELSE signatureBytes

\* header.alg: a TypeError when the parsed header is null.
HeaderAlg(header) ==
  IF header.t \in {"null", "undefined"} THEN Throw("TypeError")
  ELSE Ok(GetProp(header, AlgKey))

\* A faulty variant: a key that is a PEM text is refused under HS256.
VerifyKeyDataBound(e, pem) ==
  IF e.algorithm.s = HS256
    THEN IF pem.ok /\ Matches(e.key, 1, Dashes)
           THEN VerReturn(e, FALSE, VerificationFailed("DataError"), e.algorithm)
         ELSE [e EXCEPT !.pc = "importKey", !.keyData = TextEncode(e.key)]
  ELSE IF ~pem.ok THEN [e EXCEPT !.pc = "importKey", !.pemError = pem.err]
  ELSE [e EXCEPT !.pc = "importKey", !.keyData = pem.v]

\* Inside the try block, up to the first await: the key material is made
\* ready.  pemToArrayBuffer throws inside the async import function, so its
\* promise rejects and the await observes it.
VerifyKeyData(e, pem) ==
  IF e.algorithm.s = HS256
    THEN [e EXCEPT !.pc = "importKey", !.keyData = TextEncode(e.key)]
  ELSE IF ~pem.ok THEN [e EXCEPT !.pc = "importKey", !.pemError = pem.err]
  ELSE [e EXCEPT !.pc = "importKey", !.keyData = pem.v]

\* `const signatureBytes = base64UrlToUint8Array(signatureB64)` in the try block
VerifySignatureBytes(r, d, sig) ==
  IF ~sig.ok THEN VerReturn(d, FALSE, VerificationFailed(sig.err), d.algorithm)
  ELSE VerifyKeyData([d EXCEPT !.signatureBytes = sig.v], pemToArrayBuffer(r, d.key))

\* `const algorithm = header.alg` and the check against SUPPORTED_ALGORITHMS
VerifyAlgorithm(r, c, parts, alg) ==
  IF ~alg.ok THEN VerReject(c, alg.err)
  ELSE IF ~IsSupported(alg.v)
    THEN VerReturn(c, FALSE, AlgorithmNotSupported(alg.v), alg.v)
  ELSE VerifySignatureBytes(
         r,
         [c EXCEPT !.algorithm = alg.v, !.headerB64 = parts[1],
                   !.payloadB64 = parts[2], !.signatureB64 = parts[3],
                   !.dataBytes = TextEncode(VerifySigningInput(parts[1], parts[2]))],
         base64UrlToUint8Array(parts[3]))

\* The try block around the header's decoding and JSON.parse
VerifyHeader(r, c, parts, header) ==
  IF ~header.ok THEN VerReturn(c, FALSE, Err("Invalid header"), Absent)
  ELSE VerifyAlgorithm(r, c, parts, HeaderAlg(header.v))

\* From `const parts = token.trim().split(".")` on.
VerifyParts(r, c, parts) ==
  IF Len(parts) # 3 THEN VerReturn(c, FALSE, Err("Invalid JWT structure"), Absent)
  ELSE VerifyHeader(r, c, parts, ParseDecoded(VerifyHeaderText(r, parts[1])))

\* From the call to the first await (or to the return, if it comes first).
verifyJWTSignatureStart(r, token, key, origin) ==
  IF token = <<>> \/ key = <<>>
    THEN VerReturn([VerIdle EXCEPT !.token = token, !.key = key, !.origin = origin],
                   FALSE, Err("Token and key are required"), Absent)
  ELSE VerifyParts(r, [VerIdle EXCEPT !.token = token, !.key = key, !.origin = origin],
                   Split(Trim(token), DotChar))

\* After `await crypto.subtle.importKey(...)` / `await importRSAPublicKey(key)`.
verifyJWTSignatureImported(c) ==
  LET alg == c.algorithm.s
      k == importKey(IF alg = HS256 THEN "raw" ELSE "spki", c.keyData, FamilyOf(alg))
      d == [c EXCEPT !.crypto = Append(@, "importKey")]
  IN  IF c.pemError # ""
        THEN VerReturn(c, FALSE, VerificationFailed(c.pemError), c.algorithm)
      ELSE IF ~k.ok THEN VerReturn(d, FALSE, VerificationFailed(k.err), c.algorithm)
      ELSE [d EXCEPT !.pc = "primitive", !.handle = k.v]

\* A faulty variant: the two signatures are compared as the bytes they decode to.
HsSignatureMatchesDecoded(computedSignature, signatureB64) ==
  base64UrlToUint8Array(computedSignature) = base64UrlToUint8Array(signatureB64)

\* `computedSignature === signatureB64`
HsSignatureMatches(computedSignature, signatureB64) == computedSignature = signatureB64

\* After `await crypto.subtle.sign(...)` (HS256) / `await crypto.subtle.verify(...)`.
verifyJWTSignatureFinished(r, c, issued) ==
  LET alg == c.algorithm.s
      computed == uint8ArrayToBase64Url(HmacSha256(c.handle, c.dataBytes))
      handed == IF alg = ES256 THEN EcVerifyInput(r, c.signatureBytes)
                ELSE IF alg = RS256 THEN c.signatureBytes
                ELSE <<>>
      isValid == IF alg = HS256 THEN computed.ok /\ HsSignatureMatches(computed.v, c.signatureB64)
                 ELSE IF alg = RS256 THEN RsaVerify(handed, c.dataBytes)
                 ELSE EcdsaVerify(issued, handed, c.dataBytes)
      d == [c EXCEPT !.crypto = Append(@, IF alg = HS256 THEN "sign" ELSE "verify"),
                     !.primSig = handed]
  IN  IF alg = HS256 /\ ~computed.ok
        THEN VerReturn(d, FALSE, VerificationFailed(computed.err), c.algorithm)
      ELSE VerReturn(d, isValid,
                     IF isValid THEN Undefined ELSE Err("Signature does not match"),
                     c.algorithm)

(***************************************************************************)
(* decodeJWT                                                               *)
(***************************************************************************)
DecIdle ==
  [pc |-> "idle", token |-> <<>>, origin |-> "none", header |-> JNull,
   payload |-> JNull, signature |-> <<>>, isValid |-> FALSE, error |-> Undefined]

\* `Invalid header: ${e.message}` / `Invalid payload: ${e.message}`
InvalidPart(which, e) == [Err(which) EXCEPT !.detail = e]

\* The two try blocks, on the parsed header and the parsed payload.
DecodeSegments(c, parts, header, payload) ==
  IF ~header.ok
    THEN [c EXCEPT !.error = InvalidPart("Invalid header:", header.err)]
  ELSE IF ~payload.ok
    THEN [c EXCEPT !.header = header.v,
                   !.error = InvalidPart("Invalid payload:", payload.err)]
  ELSE [c EXCEPT !.header = header.v, !.payload = payload.v,
                 !.signature = parts[3], !.isValid = TRUE]

\* A faulty variant: only too few segments are refused.
DecodePartsAtLeast(r, c, parts) ==
  IF Len(parts) < 3
    THEN [c EXCEPT !.error =
            [Err("Invalid JWT structure. Expected 3 parts, got") EXCEPT
               !.detail = ToString(Len(parts))]]
  ELSE DecodeSegments(c, parts, JsonSegment(r, parts[1]), JsonSegment(r, parts[2]))

\* From `const parts = token.trim().split(".")` on.
DecodeParts(r, c, parts) ==
  IF Len(parts) # 3
    THEN [c EXCEPT !.error =
            [Err("Invalid JWT structure. Expected 3 parts, got") EXCEPT
               !.detail = ToString(Len(parts))]]
  ELSE DecodeSegments(c, parts, JsonSegment(r, parts[1]), JsonSegment(r, parts[2]))

decodeJWT(r, token, origin) ==
  IF token = <<>> \/ Trim(token) = <<>>
    THEN [DecIdle EXCEPT !.pc = "returned", !.token = token, !.origin = origin,
                         !.error = Err("No token provided")]
  ELSE DecodeParts(r, [DecIdle EXCEPT !.pc = "returned", !.token = token,
                                      !.origin = origin],
                   Split(Trim(token), DotChar))

(***************************************************************************)
(* Inputs                                                                  *)
(***************************************************************************)
Revisions == {"split", "conv"}

TypKey == Str(<<"t", "y", "p">>)
Jwt == Str(<<"J", "W", "T">>)

\* Headers given to encodeJWT: the three algorithms, an unsupported one, no
\* alg at all, and an alg that is there but empty.
Headers ==
  { JObj(<<Prop(AlgKey, JStr(HS256)), Prop(TypKey, JStr(Jwt))>>),
    JObj(<<Prop(AlgKey, JStr(RS256))>>),
    JObj(<<Prop(AlgKey, JStr(ES256))>>),
    JObj(<<Prop(AlgKey, JStr(Str(<<"n", "o", "n", "e">>)))>>),
    JObj(<<Prop(TypKey, JStr(Jwt))>>),
    JObj(<<Prop(AlgKey, JStr(<<>>))>>) }

\* Payloads given to encodeJWT: {}, {"é":1} and {"n":1n}.
Payloads ==
  { JObj(<<>>), JObj(<<Prop(<<233>>, JNum(1))>>), JObj(<<Prop(<<110>>, JBigInt)>>) }

PemOf(label, blob) ==
  Dashes \o BeginWord \o <<32>> \o label \o Dashes \o <<10>> \o btoa(blob).v \o <<10>>
    \o Dashes \o EndWord \o <<32>> \o label \o Dashes

PrivateLabel == Str(<< "P", "R", "I", "V", "A", "T", "E", " ", "K", "E", "Y" >>)
PublicLabel == Str(<< "P", "U", "B", "L", "I", "C", " ", "K", "E", "Y" >>)

Secret == Str(<<"k">>)
RsaPrivatePem == PemOf(PrivateLabel, KeyBlob("pkcs8", "RSA"))
RsaPublicPem == PemOf(PublicLabel, KeyBlob("spki", "RSA"))
EcPrivatePem == PemOf(PrivateLabel, KeyBlob("pkcs8", "EC"))
EcPublicPem == PemOf(PublicLabel, KeyBlob("spki", "EC"))

Keys == { <<>>, Secret, RsaPrivatePem, RsaPublicPem, EcPrivatePem, EcPublicPem }

\* The key that verifies what key signed under alg: the secret itself, or the
\* public key of the pair.
VerificationKey(alg, key) ==
  IF alg = RS256 /\ key = RsaPrivatePem THEN RsaPublicPem
  ELSE IF alg = ES256 /\ key = EcPrivatePem THEN EcPublicPem
  ELSE key

\* A 32-byte coordinate: lead zero bytes, then first, then filler bytes.
Coord(lead, first) ==
  [i \in 1..CoordLen |-> IF i <= lead THEN 0 ELSE IF i = lead + 1 THEN first ELSE 165]

\* The raw signatures the ECDSA sign primitive may return in this model.
EcSigPool ==
  { Coord(0, 200) \o Coord(0, 77), Coord(3, 1) \o Coord(3, 127),
    Coord(1, 130) \o Coord(0, 255) }

TextAlgNone ==
  Str(<< "{", "\"", "a", "l", "g", "\"", ":", "\"", "n", "o", "n", "e", "\"", "}" >>)
TextAlgLower ==
  Str(<< "{", "\"", "a", "l", "g", "\"", ":", "\"", "h", "s", "2", "5", "6", "\"", "}" >>)
TextNoAlg ==
  Str(<< "{", "}" >>)
TextNull ==
  Str(<< "n", "u", "l", "l" >>)
TextNumber ==
  Str(<< "5" >>)
TextArray ==
  Str(<< "[", "]" >>)
TextString ==
  Str(<< "\"", "x", "\"" >>)
TextTrue ==
  Str(<< "t", "r", "u", "e" >>)
TextAlgHS ==
  Str(<< "{", "\"", "a", "l", "g", "\"", ":", "\"", "H", "S", "2", "5", "6", "\"", "}" >>)
TextAlgHSSpaced ==
  Str(<< "{", " ", "\"", "t", "y", "p", "\"", " ", ":", " ", "\"", "J", "W", "T", "\"",
        ",", " ", "\"", "a", "l", "g", "\"", " ", ":", " ", "\"", "H", "S", "2", "5",
        "6", "\"", " ", "}" >>)
TextAlgRS ==
  Str(<< "{", "\"", "a", "l", "g", "\"", ":", "\"", "R", "S", "2", "5", "6", "\"", "}" >>)
TextAlgES ==
  Str(<< "{", "\"", "a", "l", "g", "\"", ":", "\"", "E", "S", "2", "5", "6", "\"", "}" >>)
TextBroken ==
  Str(<< "{", "\"", "a", "l", "g", "\"", ":" >>)

Seg(text) == base64UrlEncode(text).v

\* Header, payload and signature segments of hand-made tokens; the last two
\* header segments are not base64url and not UTF-8.
HeaderSegments ==
  { Seg(TextAlgNone), Seg(TextAlgLower), Seg(TextNoAlg), Seg(TextNull), Seg(TextNumber),
    Seg(TextArray), Seg(TextString), Seg(TextTrue), Seg(TextAlgHS), Seg(TextAlgHSSpaced),
    Seg(TextAlgRS), Seg(TextAlgES), Seg(TextBroken),
    Str(<<"!", "!">>), Str(<<"_", "w">>) }

PayloadSegments == { Seg(TextNoAlg), Seg(TextNull), Seg(TextArray), Seg(TextBroken) }

SignatureSegments == { <<>>, Str(<<"A", "A">>), Str(<<"!", "!">>) }

Token3(h, p, g) == h \o <<DotChar>> \o p \o <<DotChar>> \o g

\* Tokens that do not come from encodeJWT.
CraftedTokens ==
  { Token3(h, p, g) : h \in HeaderSegments, p \in PayloadSegments, g \in SignatureSegments }
    \cup { <<>>, <<32, 32>>, Str(<<"a", ".", "b">>), Str(<<"a", ".", "b", ".", "c", ".", "d">>),
           <<32>> \o Token3(Seg(TextAlgHS), Seg(TextNoAlg), Str(<<"A", "A">>)) \o <<10>> }

\* The signature segment an HS256 signer holding secret puts under the
\* segments h and p.
HmacSegment(secret, h, p) ==
  uint8ArrayToBase64Url(HmacSha256(importKey("raw", TextEncode(secret), "HMAC").v,
                                   TextEncode(h \o <<DotChar>> \o p))).v

\* Tokens signed with HS256 under Secret by another signer: a compact and a
\* spaced header, over payload segments that are and are not JSON objects.
SignedTokens ==
  { Token3(h, p, HmacSegment(Secret, h, p)) :
      h \in {Seg(TextAlgHS), Seg(TextAlgHSSpaced)}, p \in PayloadSegments }

\* c with bit b flipped.
FlipBit(c, b) == IF (c \div (2 ^ b)) % 2 = 1 THEN c - 2 ^ b ELSE c + 2 ^ b

\* The tokens that differ from token in one bit of the payload segment.
Tampered(token) ==
  LET parts == Split(token, DotChar)
      from == Len(parts[1]) + 2
      to == Len(parts[1]) + 1 + Len(parts[2])
  IN  { [token EXCEPT ![i] = FlipBit(token[i], b)] : i \in from..to, b \in 0..7 }

(***************************************************************************)
(* The codec in use: one call of encodeJWT, then calls of                  *)
(* verifyJWTSignature and decodeJWT, one at a time.  Each await is a step. *)
(***************************************************************************)
\* verifyJWTSignature run to its end without another call in between, given
\* the signatures the ECDSA key has issued.
VerifyToEnd(r, c, issued) ==
  IF c.pc = "primitive" THEN verifyJWTSignatureFinished(r, c, issued) ELSE c

VerifyFromImport(r, c, issued) ==
  IF c.pc = "importKey" THEN VerifyToEnd(r, verifyJWTSignatureImported(c), issued) ELSE c

VerifyAlone(r, token, key, origin, issued) ==
  VerifyFromImport(r, verifyJWTSignatureStart(r, token, key, origin), issued)

\* The VerificationResult of a call that has resolved.
ResultOf(c) == [verified |-> c.verified, error |-> c.error, algorithm |-> c.resAlgorithm]

\* pure holds one application of a pair of converters: the input, its image
\* under the first converter and what the second converter makes of the image.
PureIdle == [stage |-> "none", input |-> <<>>, image |-> Ok(<<>>), back |-> Ok(<<>>)]

\* The sample token the component starts with: HS256, signed under Secret.
SAMPLE_JWT == Token3(Seg(TextAlgHS), Seg(TextNoAlg),
                     HmacSegment(Secret, Seg(TextAlgHS), Seg(TextNoAlg)))

\* A debounce timer: whether it is pending, and the token and key that the
\* closure it will run has captured.
NoTimer == [set |-> FALSE, token |-> <<>>, key |-> <<>>]
Timer(token, key) == [set |-> TRUE, token |-> token, key |-> key]

\* The JWTDecoder component after its first render: its state, the timer its
\* effect has set and the verifyJWTSignature calls in flight.
UiIdle ==
  [token |-> SAMPLE_JWT, key |-> <<>>, verification |-> JNull, isVerifying |-> FALSE,
   timer |-> Timer(SAMPLE_JWT, <<>>), inflight |-> {}]

\* The number of calls that are in flight together.
NCalls == 2

\* Calls in flight together: none has started.  overlapped records that the
\* call was in flight while another was, and plays no part in the calls.
ParIdle == [i \in 1..NCalls |-> [kind |-> "idle", c |-> EncIdle, overlapped |-> FALSE]]

Init ==
  /\ rev \in Revisions
  /\ enc = EncIdle
  /\ ver = VerIdle
  /\ dec = DecIdle
  /\ ecIssued = {}
  /\ pure = PureIdle
  /\ ui = UiIdle
  /\ par = ParIdle

\* The tokens a caller has at hand: the one encodeJWT returned and its
\* tampered versions, or hand-made ones when nothing was encoded.
\* A correctly signed token whose signature segment has been given padding:
\* another string, the same bytes.
PaddedTokens ==
  { Token3(Seg(TextAlgHS), Seg(TextNoAlg),
           HmacSegment(Secret, Seg(TextAlgHS), Seg(TextNoAlg)) \o <<PadChar>>) }

TokenInputs ==
  IF enc.pc = "resolved"
    THEN {<<enc.token, "encoded">>}
           \cup (IF enc.token = <<>> THEN {}
                 ELSE {<<t, "tampered">> : t \in Tampered(enc.token)})
  ELSE {<<t, "crafted">> : t \in CraftedTokens \cup PaddedTokens}
         \cup {<<t, "signed">> : t \in SignedTokens}

Quiet == ver.pc = "idle" /\ dec.pc = "idle"

EncodeCall ==
  /\ enc.pc = "idle" /\ Quiet
  /\ \E header \in Headers, payload \in Payloads, key \in Keys :
       enc' = encodeJWTStart(rev, header, payload, key)
  /\ UNCHANGED <<rev, ver, dec, ecIssued, pure, ui, par>>

EncodeImportKey ==
  /\ enc.pc = "importKey"
  /\ enc' = encodeJWTImported(enc)
  /\ UNCHANGED <<rev, ver, dec, ecIssued, pure, ui, par>>

\* crypto.subtle.sign: deterministic for HMAC and RSASSA-PKCS1-v1_5, any
\* valid signature of the data for ECDSA.
EncodeSign ==
  /\ enc.pc = "sign"
  /\ \/ /\ enc.algorithm.s = HS256
        /\ enc' = encodeJWTSigned(rev, enc, HmacSha256(enc.handle, EncodeDataBytes(enc)))
        /\ UNCHANGED ecIssued
     \/ /\ enc.algorithm.s = RS256
        /\ enc' = encodeJWTSigned(rev, enc, RsaSign(EncodeDataBytes(enc)))
        /\ UNCHANGED ecIssued
     \/ /\ enc.algorithm.s = ES256
        /\ \E sig \in EcSigPool :
             /\ enc' = encodeJWTSigned(rev, enc, sig)
             /\ ecIssued' = ecIssued \cup {[data |-> EncodeDataBytes(enc), sig |-> sig]}
  /\ UNCHANGED <<rev, ver, dec, pure, ui, par>>

\* The keys tried on a token: every key, but only the right one on a
\* tampered token.
KeyInputs(origin) == IF origin = "tampered" THEN {VerificationKey(enc.algorithm.s, enc.key)} ELSE Keys

VerifyCall ==
  /\ enc.pc \in {"idle", "resolved"} /\ Quiet
  /\ \E t \in TokenInputs : \E key \in KeyInputs(t[2]) :
       ver' = verifyJWTSignatureStart(rev, t[1], key, t[2])
  /\ UNCHANGED <<rev, enc, dec, ecIssued, pure, ui, par>>

VerifyImportKey ==
  /\ ver.pc = "importKey"
  /\ ver' = verifyJWTSignatureImported(ver)
  /\ UNCHANGED <<rev, enc, dec, ecIssued, pure, ui, par>>

VerifyFinish ==
  /\ ver.pc = "primitive"
  /\ ver' = verifyJWTSignatureFinished(rev, ver, ecIssued)
  /\ UNCHANGED <<rev, enc, dec, ecIssued, pure, ui, par>>

VerifyDone ==
  /\ ver.pc \in {"resolved", "rejected"}
  /\ ver' = VerIdle
  /\ UNCHANGED <<rev, enc, dec, ecIssued, pure, ui, par>>

DecodeCall ==
  /\ enc.pc \in {"idle", "resolved"} /\ Quiet
  /\ \E t \in TokenInputs : dec' = decodeJWT(rev, t[1], t[2])
  /\ UNCHANGED <<rev, enc, ver, ecIssued, pure, ui, par>>

DecodeDone ==
  /\ dec.pc = "returned"
  /\ dec' = DecIdle
  /\ UNCHANGED <<rev, enc, ver, ecIssued, pure, ui, par>>

Next ==
  \/ EncodeCall
  \/ EncodeImportKey
  \/ EncodeSign
  \/ VerifyCall
  \/ VerifyImportKey
  \/ VerifyFinish
  \/ VerifyDone
  \/ DecodeCall
  \/ DecodeDone

Spec == Init /\ [][Next]_vars

(***************************************************************************)
(* The base64url transcoder on its own: every byte sequence up to          *)
(* MaxB64Len over B64Bytes is encoded and the result decoded.              *)
(***************************************************************************)
MaxB64Len == 3

\* Bytes whose base64 digits include '+' (251), '/' (255) and plain ones.
B64Bytes == {0, 65, 190, 239, 251, 255}

B64Inputs == UNION {[1..n -> B64Bytes] : n \in 0..MaxB64Len}

InitB64 ==
  /\ rev = "split"
  /\ enc = EncIdle
  /\ ver = VerIdle
  /\ dec = DecIdle
  /\ ecIssued = {}
  /\ pure \in {[PureIdle EXCEPT !.stage = "input", !.input = b] : b \in B64Inputs}
  /\ ui = UiIdle
  /\ par = ParIdle

B64Encode ==
  /\ pure.stage = "input"
  /\ pure' = [pure EXCEPT !.stage = "encoded", !.image = uint8ArrayToBase64Url(pure.input)]
  /\ UNCHANGED <<rev, enc, ver, dec, ecIssued, ui, par>>

B64Decode ==
  /\ pure.stage = "encoded"
  /\ pure.image.ok
  /\ pure' = [pure EXCEPT !.stage = "decoded", !.back = base64UrlToUint8Array(pure.image.v)]
  /\ UNCHANGED <<rev, enc, ver, dec, ecIssued, ui, par>>

NextB64 ==
  \/ B64Encode
  \/ B64Decode

SpecB64 == InitB64 /\ [][NextB64]_vars

(***************************************************************************)
(* The signature converters on their own: a raw signature is converted to  *)
(* DER by rawToDer and the result is converted back by derToRaw.           *)
(***************************************************************************)
MaxLead == 3

\* First non-zero byte of a coordinate: high bit clear and high bit set.
FirstBytes == {1, 127, 128, 255}

SigInputs ==
  { Coord(l1, f1) \o Coord(l2, f2) : l1 \in 0..MaxLead, l2 \in 0..MaxLead,
                                     f1 \in FirstBytes, f2 \in FirstBytes }

InitSig ==
  /\ rev = "conv"
  /\ enc = EncIdle
  /\ ver = VerIdle
  /\ dec = DecIdle
  /\ ecIssued = {}
  /\ pure \in {[PureIdle EXCEPT !.stage = "input", !.input = x] : x \in SigInputs}
  /\ ui = UiIdle
  /\ par = ParIdle

SigToDer ==
  /\ pure.stage = "input"
  /\ pure' = [pure EXCEPT !.stage = "der", !.image = Ok(rawToDer(pure.input))]
  /\ UNCHANGED <<rev, enc, ver, dec, ecIssued, ui, par>>

SigToRaw ==
  /\ pure.stage = "der"
  /\ pure' = [pure EXCEPT !.stage = "raw", !.back = derToRaw(pure.image.v)]
  /\ UNCHANGED <<rev, enc, ver, dec, ecIssued, ui, par>>

NextSig ==
  \/ SigToDer
  \/ SigToRaw

SpecSig == InitSig /\ [][NextSig]_vars

(***************************************************************************)
(* derToRaw on byte strings laid out as DER signatures, well formed or     *)
(* not: any first byte, any element tags, fields of up to 33 bytes.        *)
(***************************************************************************)
DerSequenceTag == 48

DerField(len, first) == [i \in 1..len |-> IF i = 1 THEN first ELSE 1]

DerFields == { DerField(len, first) : len \in {1, CoordLen, CoordLen + 1}, first \in {0, 129} }

DerLayout(first, rTag, r, sTag, s) ==
  <<first, 4 + Len(r) + Len(s), rTag, Len(r)>> \o r \o <<sTag, Len(s)>> \o s

DerInputs ==
  { DerLayout(first, rTag, r, sTag, s) :
      first \in {DerSequenceTag, DerSequenceTag + 1}, rTag \in {2, 3}, sTag \in {2, 3},
      r \in DerFields, s \in DerFields }

InitDer ==
  /\ rev \in Revisions
  /\ enc = EncIdle
  /\ ver = VerIdle
  /\ dec = DecIdle
  /\ ecIssued = {}
  /\ pure \in {[PureIdle EXCEPT !.stage = "der", !.input = x, !.image = Ok(x)] : x \in DerInputs}
  /\ ui = UiIdle
  /\ par = ParIdle

NextDer == SigToRaw

SpecDer == InitDer /\ [][NextDer]_vars

(***************************************************************************)
(* rawToDer on byte strings of any length: 64-byte signatures whose halves *)
(* start with zero bytes, a low or a high byte, or are all zero; the same  *)
(* cut short; the same with a byte too many.                               *)
(***************************************************************************)
RawHalves ==
  { Coord(lead, first) : lead \in {0, 2}, first \in {1, 128} } \cup { Coord(CoordLen, 0) }

RawLengths == {0, 1, CoordLen + 1, RawLen - 1, RawLen}

RawInputs ==
  { Slice(r \o s, 0, n) : r \in RawHalves, s \in RawHalves, n \in RawLengths }
    \cup { r \o s \o <<7>> : r \in RawHalves, s \in RawHalves }

InitRaw ==
  /\ rev = "conv"
  /\ enc = EncIdle
  /\ ver = VerIdle
  /\ dec = DecIdle
  /\ ecIssued = {}
  /\ pure \in {[PureIdle EXCEPT !.stage = "input", !.input = x] : x \in RawInputs}
  /\ ui = UiIdle
  /\ par = ParIdle

NextRaw ==
  \/ SigToDer
  \/ SigToRaw

SpecRaw == InitRaw /\ [][NextRaw]_vars

(***************************************************************************)
(* base64UrlToUint8Array on any text: characters of the base64url          *)
(* alphabet, of the base64 alphabet only, white space and others.          *)
(***************************************************************************)
MaxTextLen == 5

TextChars == { Ord("A"), Ord("_"), Ord("+"), 32, Ord("!") }

TextInputs ==
  UNION {[1..n -> TextChars] : n \in 0..MaxTextLen}
    \cup { Str(<<"A", "/">>), <<65, 65, 10>>, Str(<<"A", "A", "=", "=">>), Str(<<"-", "w">>) }

InitText ==
  /\ rev = "split"
  /\ enc = EncIdle
  /\ ver = VerIdle
  /\ dec = DecIdle
  /\ ecIssued = {}
  /\ pure \in {[PureIdle EXCEPT !.stage = "encoded", !.image = Ok(x)] : x \in TextInputs}
  /\ ui = UiIdle
  /\ par = ParIdle

NextText == B64Decode

SpecText == InitText /\ [][NextText]_vars

(***************************************************************************)
(* base64UrlDecode on the base64url text of any bytes: ASCII, a two-byte   *)
(* character, an encoded surrogate, a byte that is never part of UTF-8.    *)
(***************************************************************************)
Utf8Bytes == {65, 195, 169, 237, 160, 255}

Utf8Inputs == UNION {[1..n -> Utf8Bytes] : n \in 0..MaxB64Len}

InitUtf8 ==
  /\ rev \in Revisions
  /\ enc = EncIdle
  /\ ver = VerIdle
  /\ dec = DecIdle
  /\ ecIssued = {}
  /\ pure \in {[PureIdle EXCEPT !.stage = "input", !.input = b] : b \in Utf8Inputs}
  /\ ui = UiIdle
  /\ par = ParIdle

B64DecodeText ==
  /\ pure.stage = "encoded"
  /\ pure.image.ok
  /\ pure' = [pure EXCEPT !.stage = "text", !.back = base64UrlDecode(rev, pure.image.v)]
  /\ UNCHANGED <<rev, enc, ver, dec, ecIssued, ui, par>>

NextUtf8 ==
  \/ B64Encode
  \/ B64DecodeText

SpecUtf8 == InitUtf8 /\ [][NextUtf8]_vars

(***************************************************************************)
(* Key import from PEM texts whose label and body need not agree: each key *)
(* body under the labels PRIVATE KEY, PUBLIC KEY and CERTIFICATE, given to *)
(* one RS256 or ES256 call of encodeJWT or verifyJWTSignature.             *)
(***************************************************************************)
CertificateLabel ==
  Str(<< "C", "E", "R", "T", "I", "F", "I", "C", "A", "T", "E" >>)

PemLabels == { PrivateLabel, PublicLabel, CertificateLabel }

PemBodies == { KeyBlob(format, family) : format \in {"pkcs8", "spki"}, family \in {"RSA", "EC"} }

PemKeys == { PemOf(label, body) : label \in PemLabels, body \in PemBodies }

PemHeaders == { JObj(<<Prop(AlgKey, JStr(RS256))>>), JObj(<<Prop(AlgKey, JStr(ES256))>>) }

\* An RS256 and an ES256 token, and an HS256 token whose signature is the
\* HMAC of its signing input keyed with the text of the RSA public key.
PemTokens ==
  { Token3(h, Seg(TextNoAlg), Str(<<"A", "A">>)) : h \in {Seg(TextAlgRS), Seg(TextAlgES)} }
    \cup { Token3(Seg(TextAlgHS), Seg(TextNoAlg),
                  HmacSegment(RsaPublicPem, Seg(TextAlgHS), Seg(TextNoAlg))) }

InitPem ==
  /\ rev \in Revisions
  /\ enc = EncIdle
  /\ ver = VerIdle
  /\ dec = DecIdle
  /\ ecIssued = {}
  /\ pure = PureIdle
  /\ ui = UiIdle
  /\ par = ParIdle

PemEncodeCall ==
  /\ enc.pc = "idle" /\ ver.pc = "idle"
  /\ \E header \in PemHeaders, key \in PemKeys :
       enc' = encodeJWTStart(rev, header, JObj(<<>>), key)
  /\ UNCHANGED <<rev, ver, dec, ecIssued, pure, ui, par>>

PemVerifyCall ==
  /\ enc.pc = "idle" /\ ver.pc = "idle"
  /\ \E token \in PemTokens, key \in PemKeys :
       ver' = verifyJWTSignatureStart(rev, token, key, "crafted")
  /\ UNCHANGED <<rev, enc, dec, ecIssued, pure, ui, par>>

NextPem ==
  \/ PemEncodeCall
  \/ EncodeImportKey
  \/ EncodeSign
  \/ PemVerifyCall
  \/ VerifyImportKey
  \/ VerifyFinish

SpecPem == InitPem /\ [][NextPem]_vars

(***************************************************************************)
(* decodeJWT on tokens of three segments, each segment one of: JSON        *)
(* objects, JSON null, broken JSON, a byte that is not UTF-8 alone and     *)
(* inside a JSON string, text that is not base64url; and on blank tokens.  *)
(***************************************************************************)
\* The bytes of {"a":"\xFF"}: JSON but for one byte that is not UTF-8.
IllFormedJsonBytes == <<123, 34, 97, 34, 58, 34, 255, 34, 125>>

PartSegments ==
  { Seg(TextAlgHS), Seg(TextNoAlg), Seg(TextNull), Seg(TextBroken),
    Str(<<"_", "w">>), Str(<<"!", "!">>), Str(<<"A">>),
    uint8ArrayToBase64Url(IllFormedJsonBytes).v }

PartTokens ==
  { Token3(h, p, Str(<<"A", "A">>)) : h \in PartSegments, p \in PartSegments }
    \cup { <<>>, <<32>>, <<32, 10>>, Str(<<"a", ".", "b">>) }

InitParts ==
  /\ rev \in Revisions
  /\ enc = EncIdle
  /\ ver = VerIdle
  /\ dec = DecIdle
  /\ ecIssued = {}
  /\ pure = PureIdle
  /\ ui = UiIdle
  /\ par = ParIdle

PartsDecodeCall ==
  /\ dec.pc = "idle"
  /\ \E t \in PartTokens : dec' = decodeJWT(rev, t, "crafted")
  /\ UNCHANGED <<rev, enc, ver, ecIssued, pure, ui, par>>

NextParts ==
  \/ PartsDecodeCall
  \/ DecodeDone

SpecParts == InitParts /\ [][NextParts]_vars

(***************************************************************************)
(* The JWTDecoder component: edits of the token and the key, Clear and     *)
(* Load Sample, the debounce timer and the completions of the calls of     *)
(* verifyJWTSignature it has started, in any order.                        *)
(***************************************************************************)
MaxInFlight == 2

UiTokens == { <<>>, SAMPLE_JWT, Str(<<"a", ".", "b">>) }
UiKeys == { <<>>, Secret, RsaPublicPem }

\* The effect on [token, key]: when one of them changed, the cleanup clears
\* the pending timer and a new timer is set, its closure holding both.
UiEffect(u, token, key) ==
  IF token = u.token /\ key = u.key THEN u.timer ELSE Timer(token, key)

InitUi ==
  /\ rev = "split"
  /\ enc = EncIdle
  /\ ver = VerIdle
  /\ dec = DecIdle
  /\ ecIssued = {}
  /\ pure = PureIdle
  /\ ui = UiIdle
  /\ par = ParIdle

UiEditToken ==
  /\ \E t \in UiTokens \ {ui.token} :
       ui' = [ui EXCEPT !.token = t, !.timer = UiEffect(ui, t, ui.key)]
  /\ UNCHANGED <<rev, enc, ver, dec, ecIssued, pure, par>>

UiEditKey ==
  /\ \E k \in UiKeys \ {ui.key} :
       ui' = [ui EXCEPT !.key = k, !.timer = UiEffect(ui, ui.token, k)]
  /\ UNCHANGED <<rev, enc, ver, dec, ecIssued, pure, par>>

\* handleClear
UiClear ==
  /\ ui' = [ui EXCEPT !.token = <<>>, !.key = <<>>, !.verification = JNull,
                       !.timer = UiEffect(ui, <<>>, <<>>)]
  /\ UNCHANGED <<rev, enc, ver, dec, ecIssued, pure, par>>

\* handleLoadSample
UiLoadSample ==
  /\ ui' = [ui EXCEPT !.token = SAMPLE_JWT, !.key = <<>>, !.verification = JNull,
                       !.timer = UiEffect(ui, SAMPLE_JWT, <<>>)]
  /\ UNCHANGED <<rev, enc, ver, dec, ecIssued, pure, par>>

\* The timer fires: verify() runs up to its await.
UiTimerFires ==
  /\ ui.timer.set
  /\ IF ui.timer.key = <<>> \/ ui.timer.token = <<>>
       THEN ui' = [ui EXCEPT !.verification = JNull, !.timer = NoTimer]
     ELSE /\ Cardinality(ui.inflight \cup {[token |-> ui.timer.token, key |-> ui.timer.key]})
               <= MaxInFlight
          /\ ui' = [ui EXCEPT !.isVerifying = TRUE, !.timer = NoTimer,
                               !.inflight = @ \cup {[token |-> ui.timer.token,
                                                     key |-> ui.timer.key]}]
  /\ UNCHANGED <<rev, enc, ver, dec, ecIssued, pure, par>>

\* What verify() does after its await, given the call as it ended.
UiAfterAwait(u, call, c) ==
  IF c.pc = "resolved"
    THEN [u EXCEPT !.verification = ResultOf(c), !.isVerifying = FALSE,
                   !.inflight = @ \ {call}]
  ELSE [u EXCEPT !.inflight = @ \ {call}]

\* A call of verifyJWTSignature in flight ends.
UiVerifyReturns ==
  /\ \E call \in ui.inflight :
       ui' = UiAfterAwait(ui, call, VerifyAlone(rev, call.token, call.key, "ui", ecIssued))
  /\ UNCHANGED <<rev, enc, ver, dec, ecIssued, pure, par>>

NextUi ==
  \/ UiEditToken
  \/ UiEditKey
  \/ UiClear
  \/ UiLoadSample
  \/ UiTimerFires
  \/ UiVerifyReturns

SpecUi == InitUi /\ [][NextUi]_vars

(***************************************************************************)
(* Calls of encodeJWT and verifyJWTSignature in flight together.  Each     *)
(* call's arguments and consts are its own (neither function reads or      *)
(* writes a module-level variable); the calls' steps interleave at their   *)
(* awaits.                                                                 *)
(***************************************************************************)
\* The calls made: an HS256 and an ES256 encode, each with its key, and
\* verifications of the sample token under two keys.
ParEncodeInputs ==
  { <<JObj(<<Prop(AlgKey, JStr(HS256)), Prop(TypKey, JStr(Jwt))>>), Secret>>,
    <<JObj(<<Prop(AlgKey, JStr(ES256))>>), EcPrivatePem>> }
ParPayload == JObj(<<Prop(<<233>>, JNum(1))>>)
ParVerifyKeys == { Secret, RsaPublicPem }

\* A faulty variant: the key bytes are kept in one place that every call
\* writes and reads, so a call reads what the first call put there.
ParLocalsShared(p, i) == [p[i].c EXCEPT !.keyData = p[1].c.keyData]

\* The arguments and consts that call i reads at a step: its own.
ParLocals(p, i) == p[i].c

InFlight(call) == call.kind # "idle" /\ call.c.pc \notin {"resolved", "rejected"}

\* Call i has moved to c: it and every call in flight with it have overlapped.
ParStep(p, i, kind, c) ==
  [j \in DOMAIN p |->
     IF j = i
       THEN [kind |-> kind, c |-> c,
             overlapped |-> p[i].overlapped
                              \/ (c.pc \notin {"resolved", "rejected"}
                                   /\ \E k \in DOMAIN p \ {i} : InFlight(p[k]))]
     ELSE [p[j] EXCEPT !.overlapped = @ \/ (InFlight(p[j])
                                             /\ c.pc \notin {"resolved", "rejected"})]]

\* What crypto.subtle.sign gives the call: the one signature of the data for
\* HMAC and RSASSA-PKCS1-v1_5, the drawn one for ECDSA.
EncodeSignature(c, drawn) ==
  IF c.algorithm.s = HS256 THEN HmacSha256(c.handle, EncodeDataBytes(c))
  ELSE IF c.algorithm.s = RS256 THEN RsaSign(EncodeDataBytes(c))
  ELSE drawn

\* encodeJWT run from its call to its end with nothing else running.
EncodeToEnd(r, c, drawn) ==
  IF c.pc = "sign" THEN encodeJWTSigned(r, c, EncodeSignature(c, drawn)) ELSE c
EncodeFromImport(r, c, drawn) ==
  IF c.pc = "importKey" THEN EncodeToEnd(r, encodeJWTImported(c), drawn) ELSE c
EncodeAlone(r, header, payload, key, drawn) ==
  EncodeFromImport(r, encodeJWTStart(r, header, payload, key), drawn)

EncodeResultOf(c) == [token |-> c.token, error |-> c.error]

InitPar ==
  /\ rev \in Revisions
  /\ enc = EncIdle
  /\ ver = VerIdle
  /\ dec = DecIdle
  /\ ecIssued = {}
  /\ pure = PureIdle
  /\ ui = UiIdle
  /\ par = ParIdle

ParEncodeCall(i) ==
  /\ par[i].kind = "idle"
  /\ \E in \in ParEncodeInputs :
       par' = ParStep(par, i, "encode", encodeJWTStart(rev, in[1], ParPayload, in[2]))
  /\ UNCHANGED <<rev, enc, ver, dec, ecIssued, pure, ui>>

ParVerifyCall(i) ==
  /\ par[i].kind = "idle"
  /\ \E key \in ParVerifyKeys :
       par' = ParStep(par, i, "verify", verifyJWTSignatureStart(rev, SAMPLE_JWT, key, "par"))
  /\ UNCHANGED <<rev, enc, ver, dec, ecIssued, pure, ui>>

ParEncodeImportKey(i) ==
  /\ par[i].kind = "encode" /\ par[i].c.pc = "importKey"
  /\ par' = ParStep(par, i, "encode", encodeJWTImported(ParLocals(par, i)))
  /\ UNCHANGED <<rev, enc, ver, dec, ecIssued, pure, ui>>

ParEncodeSign(i) ==
  /\ par[i].kind = "encode" /\ par[i].c.pc = "sign"
  /\ \E drawn \in IF par[i].c.algorithm.s = ES256 THEN EcSigPool ELSE {<<>>} :
       /\ par' = ParStep(par, i, "encode",
                          encodeJWTSigned(rev, ParLocals(par, i),
                                          EncodeSignature(ParLocals(par, i), drawn)))
       /\ ecIssued' = IF par[i].c.algorithm.s = ES256
                        THEN ecIssued \cup {[data |-> EncodeDataBytes(ParLocals(par, i)),
                                             sig |-> drawn]}
                      ELSE ecIssued
  /\ UNCHANGED <<rev, enc, ver, dec, pure, ui>>

ParVerifyImportKey(i) ==
  /\ par[i].kind = "verify" /\ par[i].c.pc = "importKey"
  /\ par' = ParStep(par, i, "verify", verifyJWTSignatureImported(ParLocals(par, i)))
  /\ UNCHANGED <<rev, enc, ver, dec, ecIssued, pure, ui>>

ParVerifyFinish(i) ==
  /\ par[i].kind = "verify" /\ par[i].c.pc = "primitive"
  /\ par' = ParStep(par, i, "verify",
                     verifyJWTSignatureFinished(rev, ParLocals(par, i), ecIssued))
  /\ UNCHANGED <<rev, enc, ver, dec, ecIssued, pure, ui>>

NextPar ==
  \E i \in 1..NCalls :
    \/ ParEncodeCall(i)
    \/ ParVerifyCall(i)
    \/ ParEncodeImportKey(i)
    \/ ParEncodeSign(i)
    \/ ParVerifyImportKey(i)
    \/ ParVerifyFinish(i)

SpecPar == InitPar /\ [][NextPar]_vars

(***************************************************************************)
(* Properties                                                              *)
(***************************************************************************)
EncodeSucceeded == enc.pc = "resolved" /\ enc.error = Undefined

VerifyEnded == ver.pc \in {"resolved", "rejected"}

Range(f) == {f[i] : i \in DOMAIN f}

\* encodeJWT succeeded and verifyJWTSignature has ended on its token, given
\* the key that matches the signing key, in the current revision of the codec.
RoundTripCase ==
  /\ rev = "split"
  /\ EncodeSucceeded
  /\ VerifyEnded
  /\ ver.origin = "encoded" /\ ver.token = enc.token
  /\ ver.key = VerificationKey(enc.algorithm.s, enc.key)

\* C1: for HS256, RS256 and ES256, verifying the token encodeJWT produced with
\* the matching verification key resolves to verified = true, algorithm =
\* header.alg and no error.
C1_EncodeVerifyRoundTrip ==
  RoundTripCase =>
    /\ ver.pc = "resolved"
    /\ ver.verified
    /\ ver.resAlgorithm = GetProp(enc.header, AlgKey)
    /\ ver.error = Undefined

C1_Witness ==
  /\ RoundTripCase
  /\ enc.algorithm = JStr(ES256)
  /\ ver.crypto = <<"importKey", "verify">>
  /\ ver.verified

\* A token of a successful encodeJWT with one bit of its payload segment
\* flipped has been verified with the right key.
TamperCase ==
  /\ EncodeSucceeded
  /\ VerifyEnded
  /\ ver.origin = "tampered"
  /\ ver.key = VerificationKey(enc.algorithm.s, enc.key)

\* C2: a token produced by a successful encodeJWT, with any single bit of its
\* payload segment flipped, verifies as verified = false under the right key.
C2_TamperingRejected == TamperCase => ver.pc = "resolved" /\ ~ver.verified

C2_Witness ==
  /\ TamperCase
  /\ ver.crypto # <<>>
  /\ ver.error = Err("Signature does not match")
  /\ JsonSegment("split", ver.payloadB64) = Ok(enc.payload)

\* The header verifyJWTSignature parses out of a token of three segments.
VerifiedHeader(r, token) ==
  ParseDecoded(VerifyHeaderText(r, Split(Trim(token), DotChar)[1]))

\* header.alg, undefined where the header has no such property.
AlgOf(header) == IF header.t = "obj" THEN GetProp(header, AlgKey) ELSE Undefined

\* verifyJWTSignature has ended on a token of three segments whose header
\* parses, with a key that is not empty, and alg is none of the three.
UnsupportedCase ==
  /\ VerifyEnded
  /\ ver.token # <<>> /\ ver.key # <<>>
  /\ Len(Split(Trim(ver.token), DotChar)) = 3
  /\ VerifiedHeader(rev, ver.token).ok
  /\ ~IsSupported(AlgOf(VerifiedHeader(rev, ver.token).v))

\* C3: on a three-segment token whose header parses and whose alg is not
\* HS256, RS256 or ES256, with a non-empty key, verifyJWTSignature returns
\* verified = false, algorithm = alg and the error listing the supported
\* algorithms, and calls no key import, sign or verify primitive.
C3_UnsupportedAlgorithmRejected ==
  UnsupportedCase =>
    /\ ver.pc = "resolved"
    /\ ~ver.verified
    /\ ver.resAlgorithm = AlgOf(VerifiedHeader(rev, ver.token).v)
    /\ ver.error = AlgorithmNotSupported(AlgOf(VerifiedHeader(rev, ver.token).v))
    /\ ver.crypto = <<>>

\* C4: verifyJWTSignature is total: its promise never rejects, and a result
\* that is not verified carries an error.
C4_VerifyTotal ==
  /\ ver.pc # "rejected"
  /\ (ver.pc = "resolved" /\ ~ver.verified) => ver.error # Undefined

\* encodeJWT was called with a header whose alg is absent or not supported.
EncodeUnsupportedCase == enc.pc # "idle" /\ ~IsSupported(GetProp(enc.header, AlgKey))

C6_SignatureFormatRoundTrip == pure.stage = "raw" => pure.back = Ok(pure.input)

\* C7: the bytes verifyJWTSignature hands to the ECDSA verify primitive are
\* the bytes encodeJWT got from the ECDSA sign primitive, in every revision.
C7_SameSignatureBytes ==
  ( /\ EncodeSucceeded
    /\ enc.algorithm = JStr(ES256)
    /\ ver.pc = "resolved"
    /\ ver.origin = "encoded"
    /\ ver.crypto = <<"importKey", "verify">> )
  => ver.primSig = enc.primSig

\* The characters of base64url.
Base64UrlAlphabet ==
  (Range(B64Alphabet) \ {PlusChar, SlashChar}) \cup {MinusChar, UnderChar}

\* C8: base64UrlToUint8Array(uint8ArrayToBase64Url(B)) = B, and the encoded
\* string has only A-Z, a-z, 0-9, '-' and '_', with no '=' padding.
C8_Base64UrlRoundTrip ==
  /\ pure.stage \in {"encoded", "decoded"} =>
       pure.image.ok /\ Range(pure.image.v) \subseteq Base64UrlAlphabet
  /\ pure.stage = "decoded" => pure.back = Ok(pure.input)

C8_Witness ==
  /\ pure.stage = "decoded"
  /\ Len(pure.input) % 3 = 2
  /\ {MinusChar, UnderChar} \subseteq Range(pure.image.v)
  /\ pure.back = Ok(pure.input)

\* encodeJWT succeeded and decodeJWT has returned on its token.
DecodeEncodedCase == EncodeSucceeded /\ dec.pc = "returned" /\ dec.origin = "encoded"

\* C9: decodeJWT of the token of a successful encodeJWT has isValid = true,
\* the header and the payload that were encoded, and the token's third
\* segment as its signature.
C9_EncodeDecodeConsistent ==
  DecodeEncodedCase =>
    /\ dec.isValid
    /\ dec.header = enc.header
    /\ dec.payload = enc.payload
    /\ dec.signature = Split(enc.token, DotChar)[3]

C9_Witness ==
  /\ DecodeEncodedCase
  /\ rev = "split"
  /\ dec.isValid
  /\ \E i \in 1..Len(enc.payload.m) : \E c \in Range(enc.payload.m[i].k) : c > 127
  /\ dec.payload = enc.payload

\* C10: when decodeJWT returns isValid = true, the trimmed token has exactly
\* three segments and the header and the payload are JSON objects.
C10_ValidMeansObjects ==
  (dec.pc = "returned" /\ dec.isValid) =>
    /\ Len(Split(Trim(dec.token), DotChar)) = 3
    /\ dec.header.t = "obj"
    /\ dec.payload.t = "obj"

\* C11: whenever verifyJWTSignature returns verified = true, decodeJWT of the
\* same token has isValid = true.
C11_VerifiedMeansValid ==
  (ver.pc = "resolved" /\ ver.verified) => decodeJWT(rev, ver.token, ver.origin).isValid

\* A non-empty error string.
IsErrorText(e) == e.t = "error" /\ e.msg # ""

\* C12: every result of verifyJWTSignature has a non-empty error when
\* verified = false and no error when verified = true.
C12_ErrorIffNotVerified ==
  ver.pc = "resolved" =>
    /\ ~ver.verified => IsErrorText(ver.error)
    /\ ver.verified => ver.error = Undefined

C12_Witness ==
  /\ ver.pc = "resolved"
  /\ ~ver.verified
  /\ ver.crypto = <<"importKey">>
  /\ ver.error = VerificationFailed("DataError")

\* The number of '.' in a string.
Dots(s) == Cardinality({i \in 1..Len(s) : s[i] = DotChar})

\* C13: every result of encodeJWT has token "" exactly when error is set, and
\* a token without error is not empty and has exactly two '.'.
C13_TokenIffNoError ==
  enc.pc = "resolved" =>
    /\ (enc.token = <<>>) <=> (enc.error # Undefined)
    /\ enc.error = Undefined => Dots(enc.token) = 2

C13_Witness ==
  /\ enc.pc = "resolved"
  /\ enc.crypto = <<"importKey">>
  /\ enc.token = <<>>
  /\ IsErrorText(enc.error)

\* encodeJWT was called with a supported alg and a key that is not empty.
EncodeAttemptedCase == enc.pc # "idle" /\ IsSupported(enc.algorithm) /\ enc.key # <<>>

\* C14: with a supported alg and a non-empty key encodeJWT never rejects, and
\* every failure is returned as token "" with error "Encoding failed: <detail>".
C14_EncodeFailuresReturned ==
  EncodeAttemptedCase =>
    /\ enc.pc # "rejected"
    /\ (enc.pc = "resolved" /\ enc.token = <<>>) =>
         /\ enc.error.t = "error"
         /\ enc.error.msg = "Encoding failed:"
         /\ enc.error.detail # ""

C14_Witness ==
  /\ EncodeAttemptedCase
  /\ StringifyThrows(enc.payload)
  /\ enc.pc = "resolved"
  /\ enc.crypto = <<>>
  /\ enc.error = EncodingFailed("TypeError")

\* The segments of the trimmed token verifyJWTSignature was called with.
WireParts == Split(Trim(ver.token), DotChar)

\* C15: the bytes verifyJWTSignature gives to the primitive are the UTF-8
\* bytes of the token's first two segments joined by '.', as they are on the
\* wire, so an HS256 token signed over a header with other whitespace and
\* key order verifies under its secret.
C15_SigningInputFromWire ==
  /\ ver.algorithm # Undefined =>
       ver.dataBytes = TextEncode(WireParts[1] \o <<DotChar>> \o WireParts[2])
  /\ (ver.pc = "resolved" /\ ver.origin = "signed" /\ ver.key = Secret) => ver.verified

C15_Witness ==
  /\ ver.pc = "resolved"
  /\ ver.origin = "signed"
  /\ WireParts[1] = Seg(TextAlgHSSpaced)
  /\ ver.crypto = <<"importKey", "sign">>
  /\ ver.verified

\* decodeJWT has returned on a token that is not blank and does not have
\* three segments.
SegmentCountCase ==
  /\ dec.pc = "returned"
  /\ Trim(dec.token) # <<>>
  /\ Len(Split(Trim(dec.token), DotChar)) # 3

\* C16: on a token that is not blank after trimming and splits on '.' into
\* n parts, n other than 3, decodeJWT returns isValid = false, header = null,
\* payload = null, signature "" and the error "Invalid JWT structure.
\* Expected 3 parts, got n".
C16_SegmentCount ==
  SegmentCountCase =>
    /\ ~dec.isValid
    /\ dec.header = JNull
    /\ dec.payload = JNull
    /\ dec.signature = <<>>
    /\ dec.error = [Err("Invalid JWT structure. Expected 3 parts, got") EXCEPT
                      !.detail = ToString(Len(Split(Trim(dec.token), DotChar)))]

C16_Witness ==
  /\ SegmentCountCase
  /\ Len(Split(Trim(dec.token), DotChar)) = 4
  /\ dec.error.detail = "4"

\* No debounce timer is pending and no call of verifyJWTSignature is in flight.
UiSettled == ~ui.timer.set /\ ui.inflight = {}

\* C17: once no timer is pending and no call is in flight, the component's
\* stored verification is the result for the current token and key, or null
\* when the current token or key is empty.
C17_StaleResultsDiscarded ==
  UiSettled =>
    ui.verification =
      IF ui.token = <<>> \/ ui.key = <<>> THEN JNull
      ELSE ResultOf(VerifyAlone(rev, ui.token, ui.key, "ui", ecIssued))

ParFinished(i) == par[i].kind # "idle" /\ par[i].c.pc \in {"resolved", "rejected"}

HsVerifiedCase ==
  /\ ver.pc = "resolved" /\ ver.key # <<>>
  /\ Len(WireParts) = 3
  /\ ver.algorithm = JStr(HS256)

\* The unpadded base64url text of HMAC-SHA256(key, headerB64 + "." + payloadB64).
HsExpectedSegment == HmacSegment(ver.key, WireParts[1], WireParts[2])

\* C19 as stated: verified=true exactly when the signature segment is that
\* text, and for every other signature segment verified=false with the error
\* "Signature does not match".
C19_AsStated ==
  HsVerifiedCase =>
    /\ ver.verified <=> WireParts[3] = HsExpectedSegment
    /\ WireParts[3] # HsExpectedSegment
         => ~ver.verified /\ ver.error = Err("Signature does not match")

\* C19: verified=true exactly when the signature segment is character for
\* character the unpadded base64url text of the HMAC; for every other
\* signature segment verified=false, with the error "Signature does not
\* match" when the segment decodes as base64url and "Verification failed:
\* <detail>" when it does not.
C19_HsExactEquality ==
  HsVerifiedCase =>
    /\ ver.verified <=> WireParts[3] = HsExpectedSegment
    /\ ver.verified => ver.error = Undefined
    /\ WireParts[3] # HsExpectedSegment
         => /\ ~ver.verified
            /\ ver.error = IF base64UrlToUint8Array(WireParts[3]).ok
                              THEN Err("Signature does not match")
                            ELSE VerificationFailed(base64UrlToUint8Array(WireParts[3]).err)

\* An HS256 token signed under the secret was verified under it.
C19_Witness ==
  /\ HsVerifiedCase
  /\ ver.origin = "signed"
  /\ ver.verified /\ WireParts[3] = HsExpectedSegment

\* The layout derToRaw reads: 0x30 [length] 0x02 [r-length] [r] 0x02 [s-length] [s].
DerGiven == pure.image.v
DerRTag == DerGiven[3]
DerR == SubSeq(DerGiven, 5, 4 + DerGiven[4])
DerSTag == DerGiven[5 + DerGiven[4]]
DerS == SubSeq(DerGiven, 7 + DerGiven[4], 6 + DerGiven[4] + DerGiven[6 + DerGiven[4]])
WithoutLeadingZero(x) == IF x # <<>> /\ x[1] = 0 THEN Tail(x) ELSE x

DerMalformed ==
  \/ DerGiven[1] # DerSequenceTag
  \/ DerRTag # 2
  \/ DerSTag # 2
  \/ Len(WithoutLeadingZero(DerR)) > CoordLen
  \/ Len(WithoutLeadingZero(DerS)) > CoordLen

\* C20: derToRaw fails on every input whose first byte is not 0x30, whose R
\* or S tag is not 0x02, or whose R or S field is longer than 32 bytes
\* without its leading zero byte; whenever it returns, it returns 64 bytes.
C20_MalformedDerRejected ==
  (pure.stage = "raw" /\ pure.image.v \in DerInputs) =>
    /\ DerMalformed => ~pure.back.ok
    /\ pure.back.ok => Len(pure.back.v) = RawLen

\* C21: rawToDer fails for every input whose length is not exactly 64 bytes
\* and gives a DER value only for 64-byte input.
C21_RawLengthChecked ==
  (pure.stage \in {"der", "raw"} /\ pure.input \in RawInputs) =>
    (pure.image.ok <=> Len(pure.input) = RawLen)

\* The DER value rawToDer gave for a 64-byte input, and its two INTEGERs.
DerMadeCase == pure.stage \in {"der", "raw"} /\ pure.image.ok /\ Len(pure.input) = RawLen
DerMade == pure.image.v
DerMadeR == SubSeq(DerMade, 5, 4 + DerMade[4])
DerMadeS == SubSeq(DerMade, 7 + DerMade[4], Len(DerMade))

\* The big-endian value of a byte string without its leading zero bytes.
RECURSIVE Significant(_)
Significant(x) == IF x # <<>> /\ x[1] = 0 THEN Significant(Tail(x)) ELSE x

\* x is the minimal non-negative big-endian encoding of the value of half:
\* same value, high bit of the first byte clear, a leading zero only before
\* a byte with its high bit set, 1 to 33 bytes.
MinimalEncoding(x, half) ==
  /\ Significant(x) = Significant(half)
  /\ Len(x) >= 1 /\ Len(x) <= CoordLen + 1
  /\ x[1] < 128
  /\ (Len(x) > 1 /\ x[1] = 0) => x[2] >= 128

\* C22: for every 64-byte input rawToDer gives 0x30, L, 0x02, len(r), r,
\* 0x02, len(s), s with r and s the minimal non-negative encodings of R and
\* S, L = 4 + len(r) + len(s) and every length byte at most 127.
C22_DerWellFormed ==
  DerMadeCase =>
    /\ DerMade[1] = DerSequenceTag /\ DerMade[3] = 2
    /\ DerMade[5 + DerMade[4]] = 2
    /\ DerMade[6 + DerMade[4]] = Len(DerMadeS)
    /\ Len(DerMade) = 6 + Len(DerMadeR) + Len(DerMadeS)
    /\ DerMade[2] = 4 + Len(DerMadeR) + Len(DerMadeS)
    /\ DerMade[2] <= 127 /\ DerMade[4] <= 127 /\ DerMade[6 + DerMade[4]] <= 127
    /\ MinimalEncoding(DerMadeR, SubSeq(pure.input, 1, CoordLen))
    /\ MinimalEncoding(DerMadeS, SubSeq(pure.input, CoordLen + 1, RawLen))

\* A signature whose R starts with two zero bytes and whose S has its high
\* bit set was converted: R lost its zeros, S gained one.
C22_Witness ==
  /\ DerMadeCase
  /\ pure.input[1] = 0 /\ pure.input[CoordLen + 1] >= 128
  /\ Len(DerMadeR) = CoordLen - 2
  /\ Len(DerMadeS) = CoordLen + 1

\* C23: base64UrlToUint8Array fails for every text that holds a character
\* outside the base64url alphabet and for every text whose length is 1
\* modulo 4.
C23_AlphabetEnforced ==
  (pure.stage = "decoded" /\ pure.image.v \in TextInputs) =>
    (((\E i \in 1..Len(pure.image.v) : pure.image.v[i] \notin Base64UrlAlphabet)
        \/ Len(pure.image.v) % 4 = 1)
       => ~pure.back.ok)

\* C24: base64UrlDecode fails with "Invalid Base64 encoding" for every input
\* whose decoded bytes are not well-formed UTF-8, in every revision.
C24_MalformedUtf8Refused ==
  (pure.stage = "text" /\ Utf8Decode(pure.input).bad) =>
    pure.back = Throw("Invalid Base64 encoding")

\* The PEM texts whose label is the one for a private, for a public key.
PrivateLabelled == { PemOf(PrivateLabel, body) : body \in PemBodies }
PublicLabelled == { PemOf(PublicLabel, body) : body \in PemBodies }

\* C25: for RS256 and ES256, a PEM text whose label is not the one of the key
\* kind being imported makes encodeJWT and verifyJWTSignature return an error
\* result; its body is never imported.
C25_WrongLabelRejected ==
  /\ (enc.pc = "resolved" /\ enc.key \in PemKeys \ PrivateLabelled)
       => enc.token = <<>> /\ enc.error # Undefined /\ enc.handle = NoKey
  /\ (ver.pc = "resolved" /\ ver.key \in PemKeys \ PublicLabelled
        /\ ver.algorithm \in {JStr(RS256), JStr(ES256)})
       => ~ver.verified /\ ver.error # Undefined /\ ver.handle = NoKey

\* C26: the algorithm verifyJWTSignature applies is the header's alg and the
\* key is used under it whatever its form: an HS256 token whose signature is
\* the HMAC of its signing input keyed with the text of a key is verified
\* under that text, a PEM public key included, by an HMAC import and sign.
C26_AlgorithmFromHeaderOnly ==
  (ver.pc = "resolved" /\ ver.key # <<>> /\ Len(WireParts) = 3
     /\ JsonSegment(rev, WireParts[1]).ok
     /\ JsonSegment(rev, WireParts[1]).v.t = "obj"
     /\ GetProp(JsonSegment(rev, WireParts[1]).v, AlgKey) = JStr(HS256)
     /\ WireParts[3] = HmacSegment(ver.key, WireParts[1], WireParts[2]))
    => /\ ver.verified /\ ver.error = Undefined
       /\ ver.resAlgorithm = JStr(HS256)
       /\ ver.crypto = <<"importKey", "sign">>
       /\ ver.handle.family = "HMAC"

\* The HS256 token signed with the text of the RSA public key was verified
\* under that text.
C26_Witness ==
  /\ ver.pc = "resolved" /\ ver.verified
  /\ ver.key = RsaPublicPem
  /\ ver.resAlgorithm = JStr(HS256)
  /\ WireParts[3] = HmacSegment(RsaPublicPem, WireParts[1], WireParts[2])

\* C27: verifyJWTSignature returns the error of the first check that fails,
\* in the order: empty token or key, segment count of the trimmed token,
\* header decoding and parsing, supported alg, cryptographic check; the
\* results of the first three carry no algorithm field, later ones carry it.
C27_VerifyCheckOrder ==
  ver.pc \in {"resolved", "rejected"} =>
    /\ ver.pc = "resolved"
    /\ IF ver.token = <<>> \/ ver.key = <<>>
         THEN /\ ~ver.verified /\ ver.error = Err("Token and key are required")
              /\ ver.resAlgorithm = Absent /\ ver.crypto = <<>>
       ELSE IF Len(WireParts) # 3
         THEN /\ ~ver.verified /\ ver.error = Err("Invalid JWT structure")
              /\ ver.resAlgorithm = Absent /\ ver.crypto = <<>>
       ELSE IF ~VerifiedHeader(rev, ver.token).ok
         THEN /\ ~ver.verified /\ ver.error = Err("Invalid header")
              /\ ver.resAlgorithm = Absent /\ ver.crypto = <<>>
       ELSE /\ ver.resAlgorithm # Absent
            /\ ver.resAlgorithm = AlgOf(VerifiedHeader(rev, ver.token).v)
            /\ IF IsSupported(ver.resAlgorithm)
                 THEN ver.error \notin {Err("Token and key are required"),
                                        Err("Invalid JWT structure"), Err("Invalid header"),
                                        AlgorithmNotSupported(ver.resAlgorithm)}
               ELSE /\ ~ver.verified /\ ver.crypto = <<>>
                    /\ ver.error = AlgorithmNotSupported(ver.resAlgorithm)

\* A segment fails base64url decoding, UTF-8 decoding or JSON.parse.
SegmentFails(segment) ==
  \/ ~base64UrlToUint8Array(segment).ok
  \/ Utf8Decode(base64UrlToUint8Array(segment).v).bad
  \/ ~JSONparse(TextDecode(base64UrlToUint8Array(segment).v)).ok

DecParts == Split(Trim(dec.token), DotChar)

\* C28: decodeJWT checks blank input, segment count, header, payload in this
\* order and returns at the first failure: "No token provided"; "Invalid
\* header: ..." with header null, payload null and signature ""; "Invalid
\* payload: ..." with payload null and signature ""; every failure has
\* isValid false and a valid result carries no error.
C28_DecodeCheckOrder ==
  dec.pc = "returned" =>
    /\ dec.isValid => dec.error = Undefined
    /\ IF Trim(dec.token) = <<>>
         THEN ~dec.isValid /\ dec.error = Err("No token provided")
       ELSE IF Len(DecParts) # 3
         THEN ~dec.isValid /\ dec.error.msg = "Invalid JWT structure. Expected 3 parts, got"
       ELSE IF SegmentFails(DecParts[1])
         THEN /\ ~dec.isValid /\ dec.error.msg = "Invalid header:"
              /\ dec.header = JNull /\ dec.payload = JNull /\ dec.signature = <<>>
       ELSE IF SegmentFails(DecParts[2])
         THEN /\ ~dec.isValid /\ dec.error.msg = "Invalid payload:"
              /\ dec.payload = JNull /\ dec.signature = <<>>
       ELSE dec.isValid

\* C29: encodeJWT validates in the order alg present, alg supported, key
\* not empty, signing: with an empty key it returns token "" and calls no
\* cryptographic primitive, with the error for a missing alg, else the one
\* for an unsupported alg, else "Secret is required for signing" for HS256
\* and "Private key is required for signing" for RS256 and ES256; with a key
\* and a supported alg none of these errors is returned.
C29_EncodeCheckOrder ==
  /\ (enc.pc # "idle" /\ enc.key = <<>>) =>
       /\ enc.pc = "resolved" /\ enc.token = <<>> /\ enc.crypto = <<>>
       /\ enc.error =
            IF ~Truthy(GetProp(enc.header, AlgKey))
              THEN Err("Header must include 'alg' field")
            ELSE IF ~IsSupported(GetProp(enc.header, AlgKey))
              THEN AlgorithmNotSupported(GetProp(enc.header, AlgKey))
            ELSE IF GetProp(enc.header, AlgKey) = JStr(HS256)
              THEN Err("Secret is required for signing")
            ELSE Err("Private key is required for signing")
  /\ (enc.pc = "resolved" /\ enc.key # <<>> /\ IsSupported(GetProp(enc.header, AlgKey))) =>
       enc.error \notin { Err("Header must include 'alg' field"),
                          AlgorithmNotSupported(GetProp(enc.header, AlgKey)),
                          Err("Secret is required for signing"),
                          Err("Private key is required for signing") }

\* encodeJWT was called for RS256 with an empty key and asked for a private key.
C29_Witness ==
  /\ enc.pc = "resolved" /\ enc.key = <<>>
  /\ GetProp(enc.header, AlgKey) = JStr(RS256)
  /\ enc.error = Err("Private key is required for signing")
  /\ enc.token = <<>> /\ enc.crypto = <<>>

\* C30: in the JWTDecoder component isVerifying is true exactly when at
\* least one call of verifyJWTSignature started by the component has not
\* yet completed.
C30_IsVerifyingTracksInFlight ==
  ui.isVerifying <=> (ui.inflight # {})

====
